---- MODULE Spec2Model ----
(***************************************************************************)
(* Model of the audio downloader's progress tracker (the /api/progress     *)
(* route), of its download job driver (the /api/download route), of the   *)
(* page that starts downloads and polls the tracker (page.tsx) and of the   *)
(* metadata resolution and enrichment pipeline (extractMetadata).          *)
(*                                                                         *)
(* Strings of the program are modelled as sequences of tokens (words and   *)
(* the whitespace token " "), so that the empty string is <<>> and         *)
(* whitespace collapsing and joining are real operations.  An optional     *)
(* JavaScript value is a sequence of length at most one: <<>> is           *)
(* undefined, <<v>> is the value v.                                        *)
(***************************************************************************)
EXTENDS Integers, Sequences, FiniteSets, TLC

\* ------------------------------------------------------------------ bounds
\* Date.now() ranges over 1..MaxTime.
MaxTime == 2
\* At most MaxLostWrites progress writes of a job fail to reach the tracker.
MaxLostWrites == 1
\* The page sends at most MaxDownloads download requests.
MaxDownloads == 3
\* The user of the polling page clicks download at most MaxRuns times.
MaxRuns == 2

\* ------------------------------------------------------- optional values
None == <<>>
Some(v) == <<v>>
IsSome(o) == o # <<>>
Get(o) == o[1]

\* JavaScript `a || b` on strings (token sequences): the empty string is falsy.
OrElse(a, b) == IF a # <<>> THEN a ELSE b

Min(a, b) == IF a < b THEN a ELSE b
Max(a, b) == IF a > b THEN a ELSE b

\* ============================================================ progress route
\* Job identifiers a request can carry; NoId is a request without trackId.
TrackIds == {1, 2}
NoId == 0

Statuses == {"analyzing", "downloading", "converting", "enriching",
             "tagging", "completed", "error"}
Terminal == {"completed", "error"}
\* Phases a client of the bounded store specification writes.
WriteStatuses == {"downloading", "completed", "error"}

\* Percentage values a write can supply (None: no percentage in the body).
ProgressInputs == {None, Some(-5), Some(50), Some(150)}

\* The optional attributes of a write: nothing supplied, everything supplied.
ExtraShapes ==
  { [message |-> None, currentOperation |-> None, bytesDownloaded |-> None,
     totalBytes |-> None, error |-> None],
    [message |-> Some(<<"msg2">>), currentOperation |-> Some(<<"op2">>),
     bytesDownloaded |-> Some(10), totalBytes |-> Some(20),
     error |-> Some(<<"err">>)] }

\* The bodies of the writes.  The route reads each attribute of the body on
\* its own, so a percentage outside 0..100 is drawn with no optional
\* attribute beside it.
Bodies ==
  { b \in { [status |-> s, progress |-> p, message |-> x.message,
             currentOperation |-> x.currentOperation,
             bytesDownloaded |-> x.bytesDownloaded,
             totalBytes |-> x.totalBytes, error |-> x.error] :
           s \in WriteStatuses, p \in ProgressInputs, x \in ExtraShapes } :
      IsSome(b.message) => b.progress \in {None, Some(50)} }

VARIABLES
  progressStore,  \* the Map: job id -> <<>> (no entry) or <<entry>>
  now,            \* Date.now()
  response,       \* the last response a client of the progress route received
  lastOp,         \* history: the last step of the store specification; for
                  \* a client operation its time, the body it applied, the
                  \* entry it found and the store as it was before the step
  pc,             \* position of the download request in POST /api/download
  req,            \* the request: trackId, format, whether extractMetadata
                  \* was given the path of an audio file, and the time at
                  \* which the request arrived
  sessionDir,     \* the temporary session directory: none, created, removed, kept
  normalized,     \* the metadata record extractMetadata is building
  baseline,       \* history: the record of lines 594-611 before any enrichment
  resolver,       \* history: state of the fingerprint resolver stage
  mbData,         \* history: <<mb>> once a recording was fetched and merged
  env,            \* history: the credentials the running extractMetadata read
  calls,          \* history: the requests it made, in order, with outcomes
  infoJson,       \* <<info>>: the object JSON.parse(stdout) gave, <<>> before it
  acoust,         \* <<the results of the matching service>>, until that
                  \* answer has been used
  bestRec,        \* what getBestAcoustIdRecording returned for them
  discogsQuery,   \* <<query>> of the discography search of the call, <<>> if none
  consulted,      \* history: the tools and file operations the driver ran
  failed,         \* history: the legs and enrichment stages that failed
  issued,         \* history: the progress writes the driver has issued
  lostWrites,     \* history: how many of them did not reach the tracker
  thrown,         \* the Error on its way to the outer catch, <<>> if none, as
                  \* <<its message, the message of the error it was made from>>
  result,         \* the response of POST /api/download, status 0 before it
  playlist,       \* the page's playlist state: <<>> (null) or <<tracks>>
  isLoading,      \* the page is waiting for /api/analyze
  sent,           \* history: the job ids of the download requests the page sent
  awaiting,       \* the download requests not yet answered: the job id and
                  \* the progressPolling map the handler that sent it sees
  timers,         \* the job ids of the pending setTimeout calls, in order
  handles,        \* how many intervals setInterval has created
  intervals,      \* the live intervals, as <<job id, handle>>
  progressPolling,\* the page's state of that name: pairs <<job id, handle>>
  closure         \* the progressPolling map the current handleDownload closed over

storeVars == <<progressStore, now, response, lastOp>>
metaVars == <<normalized, baseline, resolver, mbData, env, calls, infoJson, acoust, bestRec, discogsQuery>>
jobVars == <<pc, req, sessionDir, consulted, failed, issued, lostWrites, thrown, result>>
clientVars ==
  <<playlist, isLoading, sent, awaiting, timers, handles, intervals,
    progressPolling, closure>>
pollVars == <<timers, handles, intervals, progressPolling, closure>>
vars == <<storeVars, metaVars, jobVars, clientVars>>

Has(store, trackId) == store[trackId] # <<>>
Entry(store, trackId) == store[trackId][1]
\* progressStore.get(trackId) for the id of a request, if it carries one
Found(store, trackId) == IF trackId = NoId THEN <<>> ELSE store[trackId]

\* Variant: the upper limit is forgotten.
ClampProgressNoCeiling(progress) ==
  Max(0, IF IsSome(progress) THEN Get(progress) ELSE 0)

\* Math.min(100, Math.max(0, progress || 0))
ClampProgress(progress) ==
  Min(100, Max(0, IF IsSome(progress) THEN Get(progress) ELSE 0))

\* Variant: every write stamps the entry with the current time.
StartTimeForLatest(existing, t) == t

\* existing?.startTime || Date.now()
StartTimeFor(existing, t) ==
  IF existing # <<>> /\ existing[1].startTime # 0
  THEN existing[1].startTime ELSE t

\* Variant: a write spreads the existing entry and overrides only what the
\* body supplies.
NewEntryMerging(existing, body, t) ==
  LET old == IF existing # <<>> THEN existing[1]
             ELSE [status |-> body.status, progress |-> 0, message |-> <<>>,
                   startTime |-> t, currentOperation |-> None,
                   bytesDownloaded |-> None, totalBytes |-> None, error |-> None]
  IN [status |-> body.status,
      progress |-> IF IsSome(body.progress)
                   THEN Min(100, Max(0, Get(body.progress))) ELSE old.progress,
      message |-> IF IsSome(body.message) THEN Get(body.message) ELSE old.message,
      startTime |-> old.startTime,
      currentOperation |-> IF IsSome(body.currentOperation)
                           THEN body.currentOperation ELSE old.currentOperation,
      bytesDownloaded |-> IF IsSome(body.bytesDownloaded)
                          THEN body.bytesDownloaded ELSE old.bytesDownloaded,
      totalBytes |-> IF IsSome(body.totalBytes)
                     THEN body.totalBytes ELSE old.totalBytes,
      error |-> IF IsSome(body.error) THEN body.error ELSE old.error]

\* Variant: a write that names no operation keeps the label the entry had.
NewEntryKeepingLabel(existing, body, t) ==
  [status |-> body.status,
   progress |-> ClampProgress(body.progress),
   message |-> IF IsSome(body.message) THEN Get(body.message) ELSE <<>>,
   startTime |-> StartTimeFor(existing, t),
   currentOperation |-> IF existing # <<>> /\ ~IsSome(body.currentOperation)
                        THEN existing[1].currentOperation
                        ELSE body.currentOperation,
   bytesDownloaded |-> body.bytesDownloaded,
   totalBytes |-> body.totalBytes,
   error |-> body.error]

\* The object progressStore.set stores for a write.
NewEntry(existing, body, t) ==
  [status |-> body.status,
   progress |-> ClampProgress(body.progress),
   message |-> IF IsSome(body.message) THEN Get(body.message) ELSE <<>>,
   startTime |-> StartTimeFor(existing, t),
   currentOperation |-> body.currentOperation,
   bytesDownloaded |-> body.bytesDownloaded,
   totalBytes |-> body.totalBytes,
   error |-> body.error]

\* Variant: a write also lands in every other entry of the store.
StoreAfterPostShared(store, trackId, body, t) ==
  [id \in TrackIds |->
     IF id = trackId \/ store[id] # <<>>
     THEN <<NewEntry(store[trackId], body, t)>> ELSE store[id]]

\* Variant: an entry in a terminal phase refuses further writes.
StoreAfterPostGuarded(store, trackId, body, t) ==
  IF store[trackId] # <<>> /\ store[trackId][1].status \in Terminal
  THEN store
  ELSE [store EXCEPT ![trackId] = <<NewEntry(store[trackId], body, t)>>]

\* progressStore after POST /api/progress with a job id.
StoreAfterPost(store, trackId, body, t) ==
  [store EXCEPT ![trackId] = <<NewEntry(store[trackId], body, t)>>]

\* Variant: a delete leaves the Map as it is.
StoreAfterDeleteKeeps(store, trackId) == store

\* progressStore.delete(trackId)
StoreAfterDelete(store, trackId) == [store EXCEPT ![trackId] = <<>>]

\* Variant: the estimate is not cut to zero once the job has completed.
EstimatedRemainingUncut(entry, elapsed) ==
  IF entry.progress <= 0
  THEN <<0, 1>>
  ELSE <<Max(0, elapsed * 100 - elapsed * entry.progress), entry.progress>>

\* Estimated remaining time as an exact fraction <<numerator, denominator>>:
\* max(0, (elapsed / progress) * 100 - elapsed), and 0 once completed or
\* when progress is 0.
EstimatedRemaining(entry, elapsed) ==
  IF entry.status = "completed" \/ entry.progress <= 0
  THEN <<0, 1>>
  ELSE <<Max(0, elapsed * 100 - elapsed * entry.progress), entry.progress>>

\* Variant: a missing entry is answered with a zero-valued state.
GetResponseDefaulting(store, trackId, t) ==
  IF trackId = NoId
  THEN [op |-> "GET", trackId |-> trackId, status |-> 400,
        error |-> <<"trackId is required">>, body |-> <<>>]
  ELSE LET entry == IF Has(store, trackId) THEN Entry(store, trackId)
                    ELSE [status |-> "analyzing", progress |-> 0, message |-> <<>>,
                          startTime |-> t, currentOperation |-> None,
                          bytesDownloaded |-> None, totalBytes |-> None,
                          error |-> None]
       IN [op |-> "GET", trackId |-> trackId, status |-> 200, error |-> <<>>,
           body |-> << [entry |-> entry, elapsedTime |-> t - entry.startTime,
                        estimatedRemaining |->
                          EstimatedRemaining(entry, t - entry.startTime)] >>]

\* The response of GET /api/progress.
GetResponse(store, trackId, t) ==
  IF trackId = NoId
  THEN [op |-> "GET", trackId |-> trackId, status |-> 400,
        error |-> <<"trackId is required">>, body |-> <<>>]
  ELSE IF ~Has(store, trackId)
  THEN [op |-> "GET", trackId |-> trackId, status |-> 404,
        error |-> <<"Progress not found">>, body |-> <<>>]
  ELSE [op |-> "GET", trackId |-> trackId, status |-> 200, error |-> <<>>,
        body |-> << [entry |-> Entry(store, trackId),
                     elapsedTime |-> t - Entry(store, trackId).startTime,
                     estimatedRemaining |->
                       EstimatedRemaining(Entry(store, trackId),
                                          t - Entry(store, trackId).startTime)] >>]

InitStore ==
  /\ progressStore = [id \in TrackIds |-> <<>>]
  /\ now = 1
  /\ response = [op |-> "none", trackId |-> NoId, status |-> 0,
                 error |-> <<>>, body |-> <<>>]
  /\ lastOp = [op |-> "none", trackId |-> NoId, time |-> 0, body |-> <<>>,
               before |-> <<>>, prior |-> [id \in TrackIds |-> <<>>]]

\* Time passes.
Tick ==
  /\ now < MaxTime
  /\ now' = now + 1
  /\ lastOp' = [op |-> "tick", trackId |-> NoId, time |-> now + 1, body |-> <<>>,
                before |-> <<>>, prior |-> progressStore]
  /\ UNCHANGED <<progressStore, response, metaVars, clientVars, jobVars>>

\* GET /api/progress?trackId=...
ProgressGet ==
  \E trackId \in TrackIds \cup {NoId} :
    /\ response' = GetResponse(progressStore, trackId, now)
    /\ lastOp' = [op |-> "GET", trackId |-> trackId, time |-> now, body |-> <<>>,
                  before |-> Found(progressStore, trackId),
                  prior |-> progressStore]
    /\ UNCHANGED <<progressStore, now, metaVars, clientVars, jobVars>>

\* The answer to a write without a job id: 400 when the body is JSON that
\* has none, 500 from the catch when request.json() rejects the body.
RejectedPost(parsed) ==
  [op |-> "POST", trackId |-> NoId,
   status |-> IF parsed THEN 400 ELSE 500,
   error |-> IF parsed THEN <<"trackId is required">>
             ELSE <<"Failed to update progress">>,
   body |-> <<>>]

\* POST /api/progress
ProgressPost ==
  \E trackId \in TrackIds \cup {NoId} :
    /\ UNCHANGED <<now, metaVars, clientVars, jobVars>>
    /\ IF trackId = NoId
       THEN \E parsed \in BOOLEAN :
              /\ lastOp' = [op |-> "POST", trackId |-> trackId, time |-> now,
                            body |-> <<>>, before |-> <<>>,
                            prior |-> progressStore]
              /\ response' = RejectedPost(parsed)
              /\ UNCHANGED progressStore
       ELSE \E body \in Bodies :
              /\ lastOp' = [op |-> "POST", trackId |-> trackId, time |-> now,
                            body |-> <<body>>,
                            before |-> Found(progressStore, trackId),
                            prior |-> progressStore]
              /\ progressStore' = StoreAfterPost(progressStore, trackId, body, now)
              /\ response' = [op |-> "POST", trackId |-> trackId, status |-> 200,
                              error |-> <<>>, body |-> <<>>]

\* DELETE /api/progress?trackId=...
ProgressDelete ==
  \E trackId \in TrackIds \cup {NoId} :
    /\ lastOp' = [op |-> "DELETE", trackId |-> trackId, time |-> now,
                  body |-> <<>>, before |-> Found(progressStore, trackId),
                  prior |-> progressStore]
    /\ UNCHANGED <<metaVars, clientVars, jobVars>>
    /\ IF trackId = NoId
       THEN /\ response' = [op |-> "DELETE", trackId |-> trackId, status |-> 400,
                            error |-> <<"trackId is required">>, body |-> <<>>]
            /\ UNCHANGED <<progressStore, now>>
       ELSE /\ progressStore' = StoreAfterDelete(progressStore, trackId)
            /\ response' = [op |-> "DELETE", trackId |-> trackId, status |-> 200,
                            error |-> <<>>, body |-> <<>>]
            /\ UNCHANGED now

\* ======================================================= metadata pipeline
\* The whitespace token and the separators the program inserts.
WS == " "
NL == "\n"
CR == "\r"
\* \s
Blank == {WS, NL, CR, "\t"}
\* the characters [^\n\r] leaves out
LineBreaks == {NL, CR}
Comma == <<",", WS>>

RECURSIVE DropLeadingWs(_)
DropLeadingWs(s) ==
  IF s # <<>> /\ Head(s) \in Blank THEN DropLeadingWs(Tail(s)) ELSE s

\* s.replace(/\s+/g, ' '): every run of whitespace becomes one space.
Squeeze(s) ==
  LET marked == [i \in 1..Len(s) |->
                   [c |-> IF s[i] \in Blank THEN WS ELSE s[i],
                    inRun |-> i > 1 /\ s[i] \in Blank /\ s[i - 1] \in Blank]]
      kept == SelectSeq(marked, LAMBDA m : ~m.inRun)
  IN [i \in 1..Len(kept) |-> kept[i].c]

\* String.prototype.trim
Trim(s) ==
  LET t == DropLeadingWs(s)
      RECURSIVE DropTrailingWs(_)
      DropTrailingWs(u) ==
        IF u # <<>> /\ u[Len(u)] \in Blank
        THEN DropTrailingWs(SubSeq(u, 1, Len(u) - 1)) ELSE u
  IN DropTrailingWs(t)

\* collapse = (s) => s.replace(/\s+/g, ' ').trim()
Collapse(s) == Trim(Squeeze(s))

\* s.slice(0, n), one token counted as one character.
Slice(s, n) == SubSeq(s, 1, Min(Len(s), n))

DescriptionLimit == 500

Digits == {"0", "1", "2", "3", "4", "5", "6", "7", "8", "9"}
\* /^\d{n}$/.test(s) on a string given character by character.
IsDigits(s, n) == Len(s) = n /\ \A i \in 1..Len(s) : s[i] \in Digits

RECURSIVE Join(_, _)
\* Array.prototype.join(sep)
Join(names, sep) ==
  IF names = <<>> THEN <<>>
  ELSE IF Len(names) = 1 THEN names[1]
  ELSE names[1] \o sep \o Join(Tail(names), sep)

\* Array.prototype.filter(Boolean) on an array of strings.
FilterNonEmpty(names) == SelectSeq(names, LAMBDA n : n # <<>>)

UnknownTitle == <<"Unknown", WS, "Title">>
UnknownArtist == <<"Unknown", WS, "Artist">>
UnknownAlbum == <<"Unknown", WS, "Album">>

\* The keys of a metadata record; a key the program leaves out is <<>>.
MetaKeys == {"title", "artist", "uploader", "album", "album_artist", "date",
             "description", "duration", "viewCount", "likeCount", "genre",
             "label", "country", "catalog", "style", "album_art_url",
             "album_art_type", "lyrics", "mbid", "release_group_mbid",
             "release_mbid"}

EmptyMeta == [k \in MetaKeys |-> <<>>]
\* Variant: the failure record leaves title and artist out.
DefaultMetadataUntitled ==
  [EmptyMeta EXCEPT !.uploader = UnknownArtist, !.album = UnknownAlbum]

\* The record extractMetadata returns when the extraction call fails.
DefaultMetadata ==
  [EmptyMeta EXCEPT !.title = UnknownTitle, !.artist = UnknownArtist,
                    !.uploader = UnknownArtist, !.album = UnknownAlbum]

\* entry of the yt-dlp JSON: the first playlist entry, else the object itself.
EntryOf(info) == IF info.entries # <<>> THEN info.entries[1] ELSE info.top
\* Variant: the title tag before the track tag.
RawTitleGenericFirst(entry) == OrElse(entry.title, entry.track)

\* rawTitle: track -> title
RawTitle(entry) == OrElse(entry.track, entry.title)

\* rawArtist: artist -> artists[0] -> album_artist -> channel -> uploader
RawArtist(entry) ==
  OrElse(entry.artist,
    OrElse(IF entry.artists # <<>> THEN entry.artists[1] ELSE <<>>,
      OrElse(entry.album_artist, OrElse(entry.channel, entry.uploader))))

\* rawAlbum: album -> playlist_title of the top-level object
RawAlbum(info) == OrElse(EntryOf(info).album, info.top.playlist_title)

\* cleanDate: YYYYMMDD of release_date || upload_date, else a 4-digit year.
CleanDate(entry) ==
  LET yyyymmdd == OrElse(entry.release_date, entry.upload_date)
  IN IF IsDigits(yyyymmdd, 8)
     THEN SubSeq(yyyymmdd, 1, 4) \o <<"-">> \o SubSeq(yyyymmdd, 5, 6)
          \o <<"-">> \o SubSeq(yyyymmdd, 7, 8)
     ELSE IF IsDigits(entry.release_year, 4) THEN entry.release_year
     ELSE <<>>

\* The record built from the extractor's JSON and the description parse.
Normalize(info, enhanced) ==
  LET entry == EntryOf(info) IN
  [EmptyMeta EXCEPT
     !.title = OrElse(Collapse(OrElse(enhanced.title, RawTitle(entry))), UnknownTitle),
     !.artist = OrElse(Collapse(OrElse(enhanced.artist, RawArtist(entry))), UnknownArtist),
     !.uploader = Collapse(entry.uploader),
     !.album = OrElse(Collapse(OrElse(enhanced.album, RawAlbum(info))), UnknownAlbum),
     !.album_artist = Collapse(OrElse(enhanced.albumArtist, entry.album_artist)),
     !.date = OrElse(enhanced.releaseYear, CleanDate(entry)),
     !.description = Slice(Collapse(entry.description), DescriptionLimit),
     !.duration = entry.duration,
     !.viewCount = entry.view_count,
     !.likeCount = entry.like_count,
     !.genre = Collapse(OrElse(enhanced.genre, entry.genre)),
     !.label = enhanced.label,
     !.country = enhanced.country,
     !.catalog = enhanced.catalog,
     !.style = enhanced.style,
     !.album_art_url = entry.thumbnail]

\* names of the artist credits: c.name || c.artist.name, empty ones dropped
CreditNames(credits) ==
  FilterNonEmpty([i \in 1..Len(credits) |->
                    OrElse(credits[i].name, credits[i].artist)])

\* releaseGroup = mb['release-group'] || mb['release-groups'][0]
MbReleaseGroup(mb) ==
  IF mb.release_group # <<>> THEN mb.release_group
  ELSE IF mb.release_groups # <<>> THEN <<mb.release_groups[1]>>
  ELSE <<>>

\* firstRelease?.title || releaseGroup?.title
MbAlbumTitle(mb) ==
  OrElse(IF mb.releases # <<>> THEN mb.releases[1].title ELSE <<>>,
         IF MbReleaseGroup(mb) # <<>> THEN MbReleaseGroup(mb)[1].title ELSE <<>>)

\* firstRelease?.date || releaseGroup?.['first-release-date']
MbDate(mb) ==
  OrElse(IF mb.releases # <<>> THEN mb.releases[1].date ELSE <<>>,
         IF MbReleaseGroup(mb) # <<>> THEN MbReleaseGroup(mb)[1].first_release_date
         ELSE <<>>)

\* tags[0]?.name
MbGenre(mb) == IF mb.tags # <<>> THEN mb.tags[1] ELSE <<>>

\* The artist the merge takes: the artist credits when that array is not
\* empty, else the artists array; <<>> when no name is left.
MbArtist(mb) ==
  IF mb.artist_credit # <<>> THEN Join(CreditNames(mb.artist_credit), Comma)
  ELSE Join(FilterNonEmpty(mb.artists), Comma)
\* Variant: the credited artists are added to the artist the record has.
MergeAppending(current, mb) ==
  [current EXCEPT
     !.title = OrElse(mb.title, current.title),
     !.artist = IF MbArtist(mb) # <<>>
                THEN current.artist \o Comma \o MbArtist(mb)
                ELSE current.artist,
     !.album = OrElse(MbAlbumTitle(mb), current.album),
     !.date = OrElse(MbDate(mb), current.date),
     !.genre = OrElse(MbGenre(mb), current.genre),
     !.mbid = OrElse(mb.id, current.mbid)]

\* Variant: the recording only fills what the record lacks.
MergeGapsOnly(current, mb) ==
  [current EXCEPT
     !.title = OrElse(current.title, mb.title),
     !.artist = OrElse(current.artist, MbArtist(mb)),
     !.album = OrElse(current.album, MbAlbumTitle(mb)),
     !.date = OrElse(current.date, MbDate(mb)),
     !.genre = OrElse(current.genre, MbGenre(mb)),
     !.mbid = OrElse(mb.id, current.mbid),
     !.release_group_mbid =
        OrElse(IF MbReleaseGroup(mb) # <<>> THEN MbReleaseGroup(mb)[1].id ELSE <<>>,
               current.release_group_mbid),
     !.release_mbid =
        OrElse(IF mb.releases # <<>> THEN mb.releases[1].id ELSE <<>>,
               current.release_mbid)]

\* The record after mergeMusicBrainzMetadata.
MergeMusicBrainzMetadata(current, mb) ==
  [current EXCEPT
     !.title = OrElse(mb.title, current.title),
     !.artist = OrElse(MbArtist(mb), current.artist),
     !.album = OrElse(MbAlbumTitle(mb), current.album),
     !.date = OrElse(MbDate(mb), current.date),
     !.genre = OrElse(MbGenre(mb), current.genre),
     !.mbid = OrElse(mb.id, current.mbid),
     !.release_group_mbid =
        OrElse(IF MbReleaseGroup(mb) # <<>> THEN MbReleaseGroup(mb)[1].id ELSE <<>>,
               current.release_group_mbid),
     !.release_mbid =
        OrElse(IF mb.releases # <<>> THEN mb.releases[1].id ELSE <<>>,
               current.release_mbid)]

\* `const merged = { ...current }` (line 764): the merge writes to a copy,
\* so the object it was given is afterwards what it was before.
CurrentAfterMerge(current, mb) == current

\* query = album ? artist + release_title : artist + track
DiscogsQuery(artist, title, album) ==
  IF album # <<>>
  THEN [artist |-> artist, field |-> "release_title", text |-> album]
  ELSE [artist |-> artist, field |-> "track", text |-> title]

\* What fetchDiscogsMetadata returns for the first search result.
DiscogsData(hit) ==
  [genre |-> OrElse(Join(hit.genre, Comma), Join(hit.style, Comma)),
   label |-> Join(hit.label, Comma),
   country |-> hit.country,
   year |-> hit.year]

\* The record after the discography data is folded in.
ApplyDiscogs(rec, discogsData) ==
  [rec EXCEPT
     !.genre = IF discogsData.genre # <<>> /\ rec.genre = <<>>
               THEN discogsData.genre ELSE rec.genre,
     !.date = IF discogsData.year # <<>> /\ rec.date = <<>>
              THEN discogsData.year ELSE rec.date,
     !.label = discogsData.label,
     !.country = discogsData.country]

\* images.find(img => img.size === 'extralarge') || images[images.length - 1]
LastfmLargeImage(images) ==
  LET xl == SelectSeq(images, LAMBDA img : img.size = "extralarge")
  IN IF xl # <<>> THEN xl[1] ELSE images[Len(images)]

\* Variant: the commercial search hands back a lyrics body.
GeniusBody(url) == <<"la", WS, "la">>

\* The string fetchGeniusLyrics returns for the url of the first hit.
GeniusReference(url) == <<"Lyrics", WS, "available", WS, "at:", WS>> \o url

\* ------------------------------------------- parseDescriptionForDJMetadata
\* The strings this function reads are sequences of single characters.
\* [\u2013-]: the hyphen and the en dash, the latter written as one token
EnDash == "en-dash"
Dashes == {"-", EnDash}

UpperLetters == <<"A", "B", "C", "D", "E", "F", "G", "H", "I", "J", "K", "L",
                  "M", "N", "O", "P", "Q", "R", "S", "T", "U", "V", "W", "X",
                  "Y", "Z">>
LowerLetters == <<"a", "b", "c", "d", "e", "f", "g", "h", "i", "j", "k", "l",
                  "m", "n", "o", "p", "q", "r", "s", "t", "u", "v", "w", "x",
                  "y", "z">>

\* \w
WordChars ==
  {UpperLetters[i] : i \in 1..26} \cup {LowerLetters[i] : i \in 1..26}
    \cup Digits \cup {"_"}

\* One character as the i flag and toLowerCase compare it.
Lower(c) ==
  IF \E i \in 1..26 : UpperLetters[i] = c
  THEN LowerLetters[CHOOSE i \in 1..26 : UpperLetters[i] = c]
  ELSE c

\* The character at position i of s, "" beyond its ends.
At(s, i) == IF i \in 1..Len(s) THEN s[i] ELSE ""

\* The literal lit, written in lower case, stands at position i of s.
LitAt(s, i, lit) ==
  /\ i >= 1
  /\ i + Len(lit) - 1 <= Len(s)
  /\ \A k \in 1..Len(lit) : Lower(s[i + k - 1]) = lit[k]

\* The literals of the patterns, in lower case.
Lit ==
  [artist |-> <<"a", "r", "t", "i", "s", "t">>,
   title |-> <<"t", "i", "t", "l", "e">>,
   track |-> <<"t", "r", "a", "c", "k">>,
   label |-> <<"l", "a", "b", "e", "l">>,
   catalog |-> <<"c", "a", "t", "a", "l", "o", "g">>,
   country |-> <<"c", "o", "u", "n", "t", "r", "y">>,
   released |-> <<"r", "e", "l", "e", "a", "s", "e", "d">>,
   genre |-> <<"g", "e", "n", "r", "e">>,
   style |-> <<"s", "t", "y", "l", "e">>,
   by |-> <<"b", "y">>,
   untitled |-> <<"u", "n", "t", "i", "t", "l", "e", "d">>,
   ep |-> <<"e", "p">>,
   album |-> <<"a", "l", "b", "u", "m">>,
   lp |-> <<"l", "p">>]

SetMin(S) == CHOOSE x \in S : \A y \in S : x <= y
SetMax(S) == CHOOSE x \in S : \A y \in S : y <= x

\* Where a greedy run of characters of `set` that starts at position i
\* ends: the first position from i on that holds another character.
RECURSIVE RunStop(_, _, _)
RunStop(s, i, set) ==
  IF i <= Len(s) /\ s[i] \in set THEN RunStop(s, i + 1, set) ELSE i

\* The first position from i on that holds a character of `set`,
\* Len(s) + 1 when there is none.
RECURSIVE StopAt(_, _, _)
StopAt(s, i, set) ==
  IF i <= Len(s) /\ s[i] \notin set THEN StopAt(s, i + 1, set) ELSE i

\* \s* from position i
BlankStop(s, i) == RunStop(s, i, Blank)

\* [^\n\r]* from position i
LineStop(s, i) == StopAt(s, i, LineBreaks)

\* \s*([^\n\r]+) from position p: the longest run of blanks that leaves a
\* character for the group, which then takes the rest of its line.
\* <<>> is no match, <<text>> a match that captured text.
RestOfLine(s, p) ==
  LET starts == {q \in p..Min(BlankStop(s, p),
    Len(s)) : s[q] \notin LineBreaks}
  IN IF starts = {} THEN <<>>
     ELSE <<SubSeq(s, SetMax(starts), LineStop(s, SetMax(starts)) - 1)>>

\* word\s*:\s*([^\n\r]+) with the word at position i
FieldAt(s, i, word) ==
  IF LitAt(s, i, word) /\ At(s, BlankStop(s, i + Len(word))) = ":"
  THEN RestOfLine(s, BlankStop(s, i + Len(word)) + 1)
  ELSE <<>>

\* s.match(/(?:word|...)\s*:\s*([^\n\r]+)/i): the group of the leftmost match
MatchField(s, words) ==
  LET hits == {i \in 1..Len(s) : \E w \in words : FieldAt(s, i, w) # <<>>}
  IN IF hits = {} THEN <<>>
     ELSE FieldAt(s, SetMin(hits),
                  CHOOSE w \in words : FieldAt(s, SetMin(hits), w) # <<>>)

\* \s*(?:word|...) from position p; `newline` adds the alternative \n,
\* `bounded` puts \b behind the word.
Terminated(s, p, words, newline, bounded) ==
  \E m \in p..BlankStop(s, p) :
    \/ \E w \in words :
         /\ LitAt(s, m, w)
         /\ bounded => At(s, m + Len(w)) \notin WordChars
    \/ newline /\ At(s, m) = NL

\* ([^\n\r]+?) from position q, followed by Terminated: the shortest text
\* after which the rest of the pattern matches.
LazyUntil(s, q, words, newline, bounded) ==
  IF q > Len(s) THEN <<>>
  ELSE LET ends == {e \in q..(LineStop(s, q) - 1) :
                      Terminated(s, e + 1, words, newline, bounded)}
       IN IF ends = {} THEN <<>> ELSE <<SubSeq(s, q, SetMin(ends))>>

ByEnds == {Lit.label, Lit.catalog, Lit.released}
TitleEnds == {Lit.artist, Lit.label, Lit.catalog, Lit.released}
AlbumWords == {Lit.ep, Lit.album, Lit.lp}

\* by\s+([^\n\r]+?)\s*(?:label|catalog|released|\n) with `by` at position i
ByAt(s, i) ==
  IF ~LitAt(s, i, Lit.by) THEN <<>>
  ELSE LET starts == {q \in (i + 3)..BlankStop(s, i + 2) :
                        LazyUntil(s, q, ByEnds, TRUE, FALSE) # <<>>}
       IN IF starts = {} THEN <<>>
          ELSE LazyUntil(s, SetMax(starts), ByEnds, TRUE, FALSE)

\* s.match(/by\s+([^\n\r]+?)\s*(?:label|catalog|released|\n)/i)
MatchBy(s) ==
  LET hits == {i \in 1..Len(s) : ByAt(s, i) # <<>>}
  IN IF hits = {} THEN <<>> ELSE ByAt(s, SetMin(hits))

\* s.match(/^([^...]+?)\s*[\u2013-]/i), where `left` holds the characters
\* the group leaves out: [^\n\r\u2013-] for the artist, [^\n\r] for the album
MatchBeforeDash(s, left) ==
  LET ends == {e \in 1..(StopAt(s, 1, left) - 1) :
                 \E m \in (e + 1)..BlankStop(s, e + 1) : At(s, m) \in Dashes}
  IN IF ends = {} THEN <<>> ELSE <<SubSeq(s, 1, SetMin(ends))>>

\* [\u2013-]\s*([^\n\r]+?)(?:\s*(?:artist|label|catalog|released|\n)) with the
\* dash at position d
AfterDashAt(s, d) ==
  LET starts == {q \in (d + 1)..BlankStop(s, d + 1) :
                   LazyUntil(s, q, TitleEnds, TRUE, FALSE) # <<>>}
  IN IF starts = {} THEN <<>>
     ELSE LazyUntil(s, SetMax(starts), TitleEnds, TRUE, FALSE)

\* s.match(/^[^\n]*?[\u2013-]\s*([^\n\r]+?)(?:\s*(?:artist|label|catalog|released|\n))/i)
MatchAfterDash(s) ==
  LET hits == {d \in 1..(StopAt(s, 1, {NL}) - 1) :
                 s[d] \in Dashes /\ AfterDashAt(s, d) # <<>>}
  IN IF hits = {} THEN <<>> ELSE AfterDashAt(s, SetMin(hits))

\* s.match(/([^\n\r]+?)\s*(?:ep|album|lp)\b/i)
MatchBeforeAlbumWord(s) ==
  LET hits == {i \in 1..Len(s) : LazyUntil(s, i, AlbumWords, FALSE,
                                                                              TRUE) # <<>>}
  IN IF hits = {} THEN <<>>
     ELSE LazyUntil(s, SetMin(hits), AlbumWords, FALSE, TRUE)

\* released\s*:?\s*(\d{4}) with the word at position i
YearAt(s, i) ==
  IF ~LitAt(s, i, Lit.released) THEN <<>>
  ELSE LET p == BlankStop(s, i + 8)
           q == BlankStop(s, IF At(s, p) = ":" THEN p + 1 ELSE p)
       IN IF \A k \in 0..3 : At(s, q + k) \in Digits
          THEN <<SubSeq(s, q, q + 3)>> ELSE <<>>

\* s.match(/released\s*:?\s*(\d{4})/i)
MatchYear(s) ==
  LET hits == {i \in 1..Len(s) : YearAt(s, i) # <<>>}
  IN IF hits = {} THEN <<>> ELSE YearAt(s, SetMin(hits))

\* genre\s*[\/\s]*style\s*:\s*([^\n\r]+) with `genre` at position i
GenreStyleAt(s, i) ==
  IF LitAt(s, i, Lit.genre)
  THEN FieldAt(s, RunStop(s, i + 5, Blank \cup {"/"}), Lit.style)
  ELSE <<>>

\* s.match(/genre\s*[\/\s]*style\s*:\s*([^\n\r]+)/i)
MatchGenreStyle(s) ==
  LET hits == {i \in 1..Len(s) : GenreStyleAt(s, i) # <<>>}
  IN IF hits = {} THEN <<>> ELSE GenreStyleAt(s, SetMin(hits))

\* The genre names of the last pattern that are one literal.
GenreNames ==
  {<<"e", "l", "e", "c", "t", "r", "o", "n", "i", "c">>, <<"h", "o", "u", "s",
     "e">>, <<"t", "e", "c", "h", "n", "o">>, <<"t", "r", "a", "n", "c", "e">>,
     <<"d", "n", "b">>, <<"d", "u", "b", "s", "t", "e", "p">>,
   <<"g", "a", "r", "a", "g", "e">>, <<"b", "r", "e", "a", "k", "b", "e", "a",
     "t">>, <<"a", "m", "b", "i", "e", "n", "t">>, <<"d", "o", "w", "n", "t",
     "e", "m", "p", "o">>, <<"p", "r", "o", "g", "r", "e", "s", "s", "i", "v",
     "e">>,
   <<"m", "i", "n", "i", "m", "a", "l">>, <<"a", "c", "i", "d">>}

\* first\s*second at position i: the position behind the match, 0 if none
PairStop(s, i, first, second) ==
  IF LitAt(s, i, first) /\ LitAt(s, BlankStop(s, i + Len(first)), second)
  THEN BlankStop(s, i + Len(first)) + Len(second)
  ELSE 0

\* drum\s*[&\+]?\s*bass at position i: the position behind the match
DrumBassStop(s, i) ==
  IF ~LitAt(s, i, <<"d", "r", "u", "m">>) THEN 0
  ELSE LET p == BlankStop(s, i + 4)
           q == BlankStop(s, IF At(s, p) \in {"&", "+"} THEN p + 1 ELSE p)
       IN IF LitAt(s, q, <<"b", "a", "s", "s">>) THEN q + 4 ELSE 0

\* (electronic|house|...|acid) at position i: the position behind the
\* name, 0 if none of them stands there.  No two of the alternatives match
\* at the same position.
GenreNameStop(s, i) ==
  IF \E w \in GenreNames : LitAt(s, i, w)
  THEN i + Len(CHOOSE w \in GenreNames : LitAt(s, i, w))
  ELSE Max(DrumBassStop(s, i),
           Max(PairStop(s, i, <<"d", "e", "e", "p">>, <<"h", "o", "u", "s",
                                "e">>),
               PairStop(s, i, <<"t", "e", "c", "h">>, <<"h", "o", "u", "s",
                                "e">>)))

\* s.match(/(electronic|house|...|acid)[^\n\r]*/i): the group is the name
MatchGenreName(s) ==
  LET hits == {i \in 1..Len(s) : GenreNameStop(s, i) > 0}
  IN IF hits = {} THEN <<>>
     ELSE <<SubSeq(s, SetMin(hits), GenreNameStop(s, SetMin(hits)) - 1)>>

\* s.replace(/^[set]+|[set]+$/g, '')
RECURSIVE StripEnd(_, _)
StripEnd(s, set) ==
  IF s # <<>> /\ s[Len(s)] \in set
  THEN StripEnd(SubSeq(s, 1, Len(s) - 1), set) ELSE s

Strip(s, set) == StripEnd(SubSeq(s, RunStop(s, 1, set), Len(s)), set)

\* s.split(',')
RECURSIVE Split(_)
Split(s) ==
  LET c == StopAt(s, 1, {","})
  IN IF c > Len(s) THEN <<s>>
     ELSE <<SubSeq(s, 1, c - 1)>> \o Split(SubSeq(s, c + 1, Len(s)))

\* Lines 88-103: genre and style from the group of the genre pattern that
\* matched first.
GenreAndStyle(match) ==
  LET genreText == Strip(Trim(match[1]), Blank \cup {":", ",", "/"})
      genres == [i \in 1..Len(Split(genreText)) |-> Trim(Split(genreText)[i])]
  IN IF \E i \in 1..Len(genreText) : genreText[i] = ","
     THEN [genre |-> genres[1], style |-> Join(Tail(genres), Comma)]
     ELSE [genre |-> genreText, style |-> <<>>]

\* The first match of a list of patterns, tried in order, that the loop
\* accepts; `least` is the length the trimmed group must reach.
RECURSIVE FirstAccepted(_, _)
FirstAccepted(matches, least) ==
  IF matches = <<>> THEN <<>>
  ELSE IF Head(matches) # <<>> /\ Len(Trim(Head(matches)[1])) >= least
  THEN Trim(Head(matches)[1])
  ELSE FirstAccepted(Tail(matches), least)

\* The first of a list of matches that is a match.
RECURSIVE FirstMatch(_)
FirstMatch(matches) ==
  IF matches = <<>> THEN <<>>
  ELSE IF Head(matches) # <<>> THEN Head(matches)
  ELSE FirstMatch(Tail(matches))

\* The title patterns are tried for a fallback title that is empty,
\* contains `untitled` or is shorter than 3 characters.
WantsTitle(fallbackTitle) ==
  \/ fallbackTitle = <<>>
  \/ \E i \in 1..Len(fallbackTitle) : LitAt(fallbackTitle, i, Lit.untitled)
  \/ Len(fallbackTitle) < 3

\* What parseDescriptionForDJMetadata returns; a key it does not set is <<>>.
ParseDescriptionForDJMetadata(description, fallbackTitle, fallbackArtist) ==
  LET genreMatch == FirstMatch(<<MatchGenreStyle(description),
                                 MatchField(description, {Lit.style}),
                                 MatchField(description, {Lit.genre}),
                                 MatchGenreName(description)>>)
      labelMatch == MatchField(description, {Lit.label})
      catalogMatch == MatchField(description, {Lit.catalog})
      countryMatch == MatchField(description, {Lit.country})
      yearMatch == MatchYear(description)
  IN [title |-> IF WantsTitle(fallbackTitle)
                THEN FirstAccepted(<<MatchField(description, {Lit.track,
                                     Lit.title}),
                                     MatchAfterDash(description)>>, 1)
                ELSE <<>>,
      artist |-> FirstAccepted(<<MatchField(description, {Lit.artist}),
                                 MatchBy(description),
                                 MatchBeforeDash(description,
                                                 LineBreaks \cup Dashes)>>, 3),
      album |-> FirstAccepted(<<MatchBeforeAlbumWord(description),
                                MatchField(description, AlbumWords),
                                MatchBeforeDash(description, LineBreaks)>>, 3),
      albumArtist |-> <<>>,
      releaseYear |-> IF yearMatch # <<>> THEN yearMatch[1] ELSE <<>>,
      genre |-> IF genreMatch # <<>> THEN GenreAndStyle(genreMatch).genre ELSE <<>>,
      label |-> IF labelMatch # <<>> THEN Trim(labelMatch[1]) ELSE <<>>,
      country |-> IF countryMatch # <<>> THEN Trim(countryMatch[1]) ELSE <<>>,
      catalog |-> IF catalogMatch # <<>> THEN Trim(catalogMatch[1]) ELSE <<>>,
      style |-> IF genreMatch # <<>> THEN GenreAndStyle(genreMatch).style ELSE <<>>]

\* Line 592: the parse of the entry's description.
Enhanced(info) ==
  ParseDescriptionForDJMetadata(EntryOf(info).description,
                                RawTitle(EntryOf(info)), RawArtist(EntryOf(info)))

\* ------------------------------------------------- inputs of the pipeline
EmptyEntry ==
  [track |-> <<>>, title |-> <<>>, artist |-> <<>>, artists |-> <<>>,
   album_artist |-> <<>>, channel |-> <<>>, uploader |-> <<>>, album |-> <<>>,
   playlist_title |-> <<>>, release_date |-> <<>>, upload_date |-> <<>>,
   release_year |-> <<>>, description |-> <<>>, duration |-> <<>>,
   view_count |-> <<>>, like_count |-> <<>>, genre |-> <<>>, thumbnail |-> <<>>]

\* JSON objects `yt-dlp -J` prints.
\* An upload with a date, a thumbnail, untidy whitespace and a label line.
InfoUpload ==
  [top |-> [EmptyEntry EXCEPT
              !.title = <<WS, "S", "o", "m", "e", WS, WS, "S", "o", "n", "g",
                          WS>>,
              !.uploader = <<"Chan">>, !.channel = <<"Chan">>,
              !.upload_date = <<"2", "0", "2", "3", "0", "6", "1", "5">>,
              !.description = <<"L", "a", "b", "e", "l", ":", WS, "T", "e",
                                "s", "t", WS, "R", "e", "c", "o", "r", "d",
                                "s">>,
              !.duration = <<"215">>, !.thumbnail = <<"thumb.jpg">>],
   entries |-> <<>>]

\* A playlist whose first entry carries music tags and no description.
InfoPlaylist ==
  [top |-> [EmptyEntry EXCEPT !.title = <<"L", "i", "s", "t">>,
                              !.playlist_title = <<"M", "i", "x">>],
   entries |-> << [EmptyEntry EXCEPT
                     !.track = <<"T", "r", "a", "c", "k">>, !.title = <<"V",
                                 "i", "d", "e", "o">>,
                     !.artists = << <<"F", "i", "r", "s", "t">>, <<"S", "e",
                                   "c", "o", "n", "d">> >>,
                     !.release_year = <<"2", "0", "1", "9">>] >>]

\* An upload titled `untitled` whose description is a release sheet.
InfoSheet ==
  [top |-> [EmptyEntry EXCEPT
              !.title = <<"u", "n", "t", "i", "t", "l", "e", "d">>,
              !.description = <<"A", "r", "t", "i", "s", "t", ":", WS, "D",
                                "J", WS, "T", "e", "s", "t", NL, "A", "l", "b",
                                "u", "m", ":", WS, "N", "i", "g", "h", "t", WS,
                                "E", "P", NL, "L", "a", "b", "e", "l", ":", WS,
                                "T", "e", "s", "t", WS, "R", "e", "c", "o",
                                "r", "d", "s", NL, "C", "o", "u", "n", "t",
                                "r", "y", ":", WS, "D", "E", NL, "R", "e", "l",
                                "e", "a", "s", "e", "d", ":", WS, "2", "0",
                                "2", "1", NL, "G", "e", "n", "r", "e", WS, "/",
                                WS, "S", "t", "y", "l", "e", ":", WS, "E", "l",
                                "e", "c", "t", "r", "o", "n", "i", "c", ",",
                                WS, "D", "e", "e", "p", WS, "H", "o", "u", "s",
                                "e">>],
   entries |-> <<>>]

\* An upload with artist, album, genre and date tags whose description
\* names other values for them.
InfoTagged ==
  [top |-> [EmptyEntry EXCEPT
              !.title = <<"N", "i", "g", "h", "t", WS, "D", "r", "i", "v",
                          "e">>,
              !.artist = <<"T", "a", "g", "g", "e", "d", WS, "A", "r", "t",
                           "i", "s", "t">>,
              !.album = <<"T", "a", "g", "g", "e", "d", WS, "A", "l", "b", "u",
                          "m">>,
              !.genre = <<"R", "o", "c", "k">>,
              !.release_date = <<"2", "0", "2", "0", "0", "1", "0", "1">>,
              !.release_year = <<"2", "0", "2", "0">>,
              !.description = <<"A", "r", "t", "i", "s", "t", ":", WS, "D",
                                "J", WS, "T", "e", "s", "t", NL, "N", "i", "g",
                                "h", "t", WS, "E", "P", NL, "R", "e", "l", "e",
                                "a", "s", "e", "d", ":", WS, "2", "0", "2",
                                "1", NL, "G", "e", "n", "r", "e", ":", WS, "H",
                                "o", "u", "s", "e">>],
   entries |-> <<>>]

\* An object without any of the fields.
InfoBare == [top |-> EmptyEntry, entries |-> <<>>]
\* An upload with a two-letter title whose description names the track.
InfoShort ==
  [top |-> [EmptyEntry EXCEPT
              !.title = <<"a", "b">>,
              !.description = <<"T", "i", "t", "l", "e", ":", WS, "R", "e",
                                "a", "l", WS, "N", "a", "m", "e", NL, "L", "a",
                                "b", "e", "l", ":", WS, "T", "e", "s", "t", WS,
                                "R", "e", "c", "o", "r", "d", "s">>],
   entries |-> <<>>]

\* An upload whose title says UNTITLED in capitals, with a track line.
InfoShouting ==
  [top |-> [EmptyEntry EXCEPT
              !.title = <<"U", "N", "T", "I", "T", "L", "E", "D", WS, "3">>,
              !.description = <<"T", "r", "a", "c", "k", ":", WS, "R", "e",
                                "a", "l", WS, "N", "a", "m", "e">>],
   entries |-> <<>>]

\* An upload with a usable title and tag whose description names another.
InfoNamed ==
  [top |-> [EmptyEntry EXCEPT
              !.track = <<"T", "a", "g", WS, WS, "N", "a", "m", "e">>,
              !.title = <<"V", "i", "d", "e", "o", WS, "N", "a", "m", "e">>,
              !.description = <<"T", "i", "t", "l", "e", ":", WS, "O", "t",
                                "h", "e", "r", WS, "N", "a", "m", "e">>],
   entries |-> <<>>]

\* An upload whose title is three blanks, with a title line.
InfoBlank ==
  [top |-> [EmptyEntry EXCEPT
              !.title = <<WS, WS, WS>>,
              !.description = <<"T", "i", "t", "l", "e", ":", WS, "R", "e",
                                "a", "l", WS, "N", "a", "m", "e">>],
   entries |-> <<>>]

\* An upload whose description, 51 lines of 12 characters, is longer than
\* the record keeps.
InfoLong ==
  [top |-> [EmptyEntry EXCEPT
              !.title = <<"L", "o", "n", "g">>,
              !.description =
                 [i \in 1..(DescriptionLimit + 112) |->
                    IF i % 12 = 0 THEN NL
                    ELSE IF i % 3 = 0 THEN WS
                    ELSE IF i % 3 = 1 THEN "l" ELSE "a"]],
   entries |-> <<>>]

\* extractMetadata was called on its own, not by a download job.
Standalone == sessionDir = "none"

\* The objects the extraction tool prints.  The long description and the
\* descriptions with a title line are drawn for a call outside a download
\* job only: a job carries the record unchanged through all its later steps.
Infos ==
  {InfoUpload, InfoPlaylist, InfoSheet, InfoTagged, InfoBare}
    \cup (IF Standalone
          THEN {InfoLong, InfoShort, InfoShouting, InfoNamed, InfoBlank}
          ELSE {})

\* Bodies of the fingerprint-matching service: results with their score
\* (<<>> when the result has none) and the ids of their recordings.
AcoustBodies ==
  { <<>>,
    << [score |-> <<9>>, recordings |-> <<>>],
       [score |-> <<5>>, recordings |-> << <<"rec1">> >>] >>,
    << [score |-> <<5>>, recordings |-> << <<"rec1">> >>],
       [score |-> <<9>>, recordings |-> << <<"rec2">>, <<"rec3">> >>],
       [score |-> <<9>>, recordings |-> << <<"rec4">> >>] >>,
    << [score |-> <<>>, recordings |-> << <<"rec5">> >>],
       [score |-> <<0>>, recordings |-> << <<"rec6">> >>],
       [score |-> <<>>, recordings |-> << <<"rec7">> >>] >> }

EmptyMb ==
  [id |-> <<>>, title |-> <<>>, artist_credit |-> <<>>, artists |-> <<>>,
   releases |-> <<>>, release_group |-> <<>>, release_groups |-> <<>>,
   tags |-> <<>>]

\* Recordings of the metadata catalog: one with every attribute, one with
\* an artists array and a release group only, and, for a call outside a
\* download job, one with its id alone.
Mbs ==
  { [EmptyMb EXCEPT
       !.id = <<"rec2">>, !.title = <<"MbTitle">>,
       !.artist_credit = << [name |-> <<"A1">>, artist |-> <<>>],
                            [name |-> <<>>, artist |-> <<"A2">>] >>,
       !.releases = << [id |-> <<"rel1">>, title |-> <<"RelTitle">>,
                        date |-> <<"2020-01-02">>] >>,
       !.release_group = << [id |-> <<"rg1">>, title |-> <<"RgTitle">>,
                             first_release_date |-> <<"2019">>] >>,
       !.tags = << <<"techno">>, <<"dance">> >>],
    [EmptyMb EXCEPT
       !.id = <<"rec1">>, !.artists = << <<"A3">> >>,
       !.release_groups = << [id |-> <<"rg2">>, title |-> <<"RgOnly">>,
                              first_release_date |-> <<>>] >>] }
    \cup (IF Standalone THEN {[EmptyMb EXCEPT !.id = <<"rec4">>]} ELSE {})

\* First search results of the discography database.
DiscogsResults ==
  { [genre |-> << <<"Electronic">>, <<"Pop">> >>, style |-> << <<"Acid">> >>,
     label |-> << <<"DLabel">> >>, country |-> <<"UK">>, year |-> <<"1999">>],
    [genre |-> <<>>, style |-> <<>>, label |-> <<>>, country |-> <<>>,
     year |-> <<>>] }

\* album.image arrays of the scrobbling service.
LastfmImages ==
  { << [size |-> "extralarge", text |-> <<"lastfm-xl.png">>],
       [size |-> "mega", text |-> <<"lastfm-mega.png">>] >>,
    << [size |-> "small", text |-> <<>>] >> }

\* lyrics.slice(0, 5000): the number of characters convertToAIFF writes
\* into the lyrics tag.
LyricsLimit == 5000

\* Lyrics one character longer than the tag takes.
LongLyrics == [i \in 1..(LyricsLimit + 1) |-> "l"]

\* Lyrics bodies of the free lookup.  The long one is drawn for a call
\* outside a download job only.
LyricsBodies ==
  { <<WS>>, <<WS, "la", WS, "la", WS>> }
    \cup (IF Standalone THEN {LongLyrics} ELSE {})

\* Error texts of the extraction tool, lower-cased, as the markers they hold.
YtDlpErrors ==
  { <<"command failed">>, <<"timed out">>,
    <<"video unavailable", WS, "connection">>, <<"no video formats">>,
    <<"http error 429">>, <<"network">>,
    <<"too many requests", WS, "timeout">> }

\* ------------------------------------------------------- download errors
\* errorMsg.includes(marker)
Includes(msg, marker) == \E i \in 1..Len(msg) : msg[i] = marker

\* Variant: the network markers are looked for first.
DownloadErrorNetworkFirst(msg) ==
  IF Includes(msg, "network") \/ Includes(msg, "connection")
  THEN <<"Network connection issue.">>
  ELSE IF Includes(msg, "timeout") \/ Includes(msg, "timed out")
  THEN <<"Download timed out after 5 minutes.">>
  ELSE IF Includes(msg, "unable to extract") \/ Includes(msg, "video unavailable")
  THEN <<"Unable to access this video.">>
  ELSE IF Includes(msg, "no video formats") \/ Includes(msg, "no suitable formats")
  THEN <<"No audio formats available.">>
  ELSE IF Includes(msg, "http error 429") \/ Includes(msg, "too many requests")
  THEN <<"Rate limited by the source.">>
  ELSE <<"Download failed:", WS>> \o msg

\* The message of the Error downloadAudio throws for a caught error.
DownloadError(msg) ==
  IF Includes(msg, "timeout") \/ Includes(msg, "timed out")
  THEN <<"Download timed out after 5 minutes.">>
  ELSE IF Includes(msg, "unable to extract") \/ Includes(msg, "video unavailable")
  THEN <<"Unable to access this video.">>
  ELSE IF Includes(msg, "no video formats") \/ Includes(msg, "no suitable formats")
  THEN <<"No audio formats available.">>
  ELSE IF Includes(msg, "http error 429") \/ Includes(msg, "too many requests")
  THEN <<"Rate limited by the source.">>
  ELSE IF Includes(msg, "network") \/ Includes(msg, "connection")
  THEN <<"Network connection issue.">>
  ELSE <<"Download failed:", WS>> \o msg

\* The message of the Error convertToAIFF throws for a caught error.
ConversionError(msg) == <<"AIFF conversion failed:", WS>> \o msg

\* --------------------------------------------------------- job driver
EnvNames == {"ACOUSTID", "DISCOGS", "LASTFM", "SPOTIFY", "GENIUS"}
Formats == {"aiff", "original"}

\* The external calls whose failure aborts the job.
FatalLegs == {"mkdir-session", "yt-dlp", "find", "read-audio", "ffmpeg",
              "access", "read-aiff", "mkdir-save", "copy"}
\* The enrichment stages, whose failure the job survives.
EnrichmentStages == {"yt-dlp-json", "fpcalc", "acoustid", "musicbrainz",
                     "discogs", "cover-art", "lyrics"}

NoResult == [status |-> 0, success |-> FALSE, error |-> <<>>, metadata |-> <<>>]

InitRun ==
  /\ sessionDir = "none"
  /\ normalized = EmptyMeta
  /\ baseline = EmptyMeta
  /\ resolver = "none"
  /\ mbData = <<>>
  /\ env = [n \in EnvNames |-> "unread"]
  /\ calls = <<>>
  /\ infoJson = <<>>
  /\ acoust = <<>>
  /\ bestRec = <<>>
  /\ discogsQuery = <<>>
  /\ consulted = <<>>
  /\ failed = {}
  /\ issued = <<>>
  /\ lostWrites = 0
  /\ thrown = <<>>
  /\ result = NoResult

InitJob ==
  /\ pc = "idle"
  /\ req = [trackId |-> NoId, format |-> "aiff", audioFile |-> FALSE, at |-> 0]
  /\ InitRun

\* The body updateProgress posts.
DriverBody(status, progress, message, operation) ==
  [status |-> status, progress |-> Some(progress), message |-> Some(message),
   currentOperation |-> Some(operation), bytesDownloaded |-> None,
   totalBytes |-> None, error |-> None]

\* await updateProgress(trackId, ...): the POST reaches the tracker or the
\* fetch fails and the failure is swallowed.
IssueProgress(status, progress, message, operation) ==
  /\ issued' = Append(issued, [status |-> status, progress |-> progress])
  /\ \E delivered \in BOOLEAN :
       /\ ~delivered => lostWrites < MaxLostWrites
       /\ lostWrites' = IF delivered THEN lostWrites ELSE lostWrites + 1
       /\ progressStore' =
            IF delivered /\ req.trackId # NoId
            THEN StoreAfterPost(progressStore, req.trackId,
                                DriverBody(status, progress, message, operation), now)
            ELSE progressStore
\* Variant: a write that does not reach the tracker aborts the job.
ProgressStepAborting(from, to, status, progress, message, operation) ==
  /\ pc = from
  /\ IssueProgress(status, progress, message, operation)
  /\ pc' = IF lostWrites' > lostWrites THEN "respond" ELSE to
  /\ UNCHANGED <<now, response, lastOp, metaVars, clientVars, req, sessionDir, consulted,
                 failed, thrown, result>>

\* A step of the driver that only posts a progress update.
ProgressStep(from, to, status, progress, message, operation) ==
  /\ pc = from
  /\ pc' = to
  /\ IssueProgress(status, progress, message, operation)
  /\ UNCHANGED <<now, response, lastOp, metaVars, clientVars, req, sessionDir, consulted,
                 failed, thrown, result>>

\* The error a failing call leaves its function with: the catch of
\* downloadAudio or of convertToAIFF rewrites it, the route itself has none.
Rethrow(catcher, msg) ==
  CASE catcher = "downloadAudio" -> DownloadError(msg)
    [] catcher = "convertToAIFF" -> ConversionError(msg)
    [] OTHER -> msg

\* An external call of a fatal leg: it succeeds, or it throws one of msgs,
\* the catch of `catcher` rethrows it and the job goes to errPc.
FatalCall(from, name, okPc, errPc, msgs, catcher) ==
  /\ pc = from
  /\ consulted' = Append(consulted, name)
  /\ \/ /\ pc' = okPc
        /\ UNCHANGED <<failed, thrown>>
     \/ \E msg \in msgs :
          /\ pc' = errPc
          /\ failed' = failed \cup {name}
          /\ thrown' = <<Rethrow(catcher, msg), msg>>
  /\ UNCHANGED <<storeVars, metaVars, clientVars, req, issued, lostWrites, result>>


\* POST /api/download: the request is read; without a url it is rejected.
Receive(hasUrl, trackId, format) ==
  /\ pc = "idle"
  /\ req' = [trackId |-> trackId, format |-> format, audioFile |-> TRUE,
             at |-> now]
  /\ IF hasUrl
     THEN /\ pc' = "upd-analyzing"
          /\ UNCHANGED result
     ELSE /\ pc' = "returned"
          /\ result' = [NoResult EXCEPT !.status = 400,
                                        !.error = <<"URL is required">>]
  /\ UNCHANGED <<storeVars, metaVars, clientVars, sessionDir, consulted, failed, issued,
                 lostWrites, thrown>>

\* A request of any client of the route.
ReceiveRequest ==
  \E hasUrl \in BOOLEAN, trackId \in TrackIds \cup {NoId}, format \in Formats :
    Receive(hasUrl, trackId, format)

UpdAnalyzing ==
  /\ ProgressStep("upd-analyzing", "mkdir-session", "analyzing", 5,
               <<"Analyzing URL and extracting metadata...">>, <<"URL Analysis">>)

\* mkdir(sessionDir): outside the inner try, so a failure skips the cleanup.
MkdirSession ==
  /\ FatalCall("mkdir-session", "mkdir-session", "upd-downloading", "respond",
               { <<"EACCES">> }, "POST")
  /\ sessionDir' = IF pc' = "upd-downloading" THEN "created" ELSE sessionDir

UpdDownloading ==
  /\ ProgressStep("upd-downloading", "upd-dl25", "downloading", 10,
               <<"Starting audio download...">>, <<"yt-dlp Download">>)

\* downloadAudio: if (trackId) await updateProgress(... 25 ...)
UpdDownloading25 ==
  IF req.trackId # NoId
  THEN /\ ProgressStep("upd-dl25", "yt-dlp", "downloading", 25,
                    <<"Downloading audio from source...">>, <<"yt-dlp Download">>)
  ELSE /\ pc = "upd-dl25"
       /\ pc' = "yt-dlp"
       /\ UNCHANGED <<storeVars, metaVars, clientVars, req, sessionDir, consulted, failed,
                      issued, lostWrites, thrown, result>>

\* execAsync(ytDlpCmd), which succeeds or fails with one of `errors`
RunYtDlp(errors) ==
  /\ FatalCall("yt-dlp", "yt-dlp", "upd-dl45", "cleanup", errors, "downloadAudio")
  /\ UNCHANGED sessionDir

YtDlp == RunYtDlp(YtDlpErrors)

UpdDownloading45 ==
  IF req.trackId # NoId
  THEN /\ ProgressStep("upd-dl45", "find", "downloading", 45,
                    <<"Audio download complete, processing...">>, <<"Download Complete">>)
  ELSE /\ pc = "upd-dl45"
       /\ pc' = "find"
       /\ UNCHANGED <<storeVars, metaVars, clientVars, req, sessionDir, consulted, failed,
                      issued, lostWrites, thrown, result>>

\* find ... : no audio file is an Error, as is a failure of find itself.
FindAudio ==
  /\ FatalCall("find", "find", "meta-json", "cleanup",
               { <<"No audio file found after download">>, <<"command failed">> },
               "downloadAudio")
  /\ UNCHANGED sessionDir

\* ------------------------------------------------------ extractMetadata
EnvRead(name, present) ==
  [env EXCEPT ![name] = IF present THEN "set" ELSE "unset"]

\* The call `name` was made and ended with `outcome`: "ok", "notok" (a
\* non-success status or an empty answer) or "throw".
Called(name, outcome) == calls' = Append(calls, [call |-> name, outcome |-> outcome])

\* A failed or empty answer of a source is recorded under its stage.
Failing(stage, outcome) ==
  failed' = IF outcome = "ok" THEN failed ELSE failed \cup {stage}

CallOutcomes == {"ok", "notok", "throw"}

metaFrame ==
  <<storeVars, clientVars, req, sessionDir, consulted, issued, lostWrites, thrown, result>>

\* yt-dlp -J and lines 551-615: the Normalizer record, then the credential
\* check of the resolver.
MetaJson ==
  /\ pc = "meta-json"
  /\ \/ /\ Called("yt-dlp-json", "throw")
        /\ normalized' = DefaultMetadata
        /\ baseline' = DefaultMetadata
        /\ infoJson' = <<>>
        /\ failed' = failed \cup {"yt-dlp-json"}
        /\ pc' = "meta-done"
        /\ UNCHANGED <<resolver, env>>
     \/ \E info \in Infos, key \in BOOLEAN :
          /\ Called("yt-dlp-json", "ok")
          /\ normalized' = Normalize(info, Enhanced(info))
          /\ baseline' = Normalize(info, Enhanced(info))
          /\ infoJson' = <<info>>
          /\ env' = EnvRead("ACOUSTID", key)
          /\ resolver' = IF key /\ req.audioFile THEN resolver ELSE "skipped"
          /\ pc' = IF key /\ req.audioFile THEN "fpcalc" ELSE "meta-done"
          /\ UNCHANGED failed
  /\ UNCHANGED <<mbData, metaFrame, acoust, bestRec, discogsQuery>>

\* getChromaprintFingerprint: no fingerprint skips the resolver.
Fpcalc ==
  /\ pc = "fpcalc"
  /\ \E outcome \in CallOutcomes :
       /\ Called("fpcalc", outcome)
       /\ Failing("fpcalc", outcome)
       /\ pc' = IF outcome = "ok" THEN "acoustid" ELSE "meta-done"
       /\ resolver' = IF outcome = "ok" THEN resolver ELSE "skipped"
  /\ UNCHANGED <<normalized, baseline, mbData, env, metaFrame, infoJson, acoust, bestRec, discogsQuery>>

\* (r.score || 0)
ScoreOf(r) == IF r.score = <<>> THEN 0 ELSE r.score[1]

\* Variant: the comparator of an ascending sort.
CompareAscending(a, b) == ScoreOf(a) - ScoreOf(b)

\* The comparator (a, b) => (b.score || 0) - (a.score || 0)
CompareScore(a, b) == ScoreOf(b) - ScoreOf(a)

\* One step of the stable sort: r, which came later in the array, goes
\* behind every result placed so far that the comparator does not put
\* after it.
RECURSIVE InsertByScore(_, _)
InsertByScore(sorted, r) ==
  IF sorted = <<>> THEN <<r>>
  ELSE IF CompareScore(Head(sorted), r) <= 0
  THEN <<Head(sorted)>> \o InsertByScore(Tail(sorted), r)
  ELSE <<r>> \o sorted

RECURSIVE SortByScore(_)
\* results.slice().sort(...): descending by score, stable.
SortByScore(results) ==
  IF results = <<>> THEN <<>>
  ELSE InsertByScore(SortByScore(SubSeq(results, 1, Len(results) - 1)),
                     results[Len(results)])

\* getBestAcoustIdRecording: <<id>> of the first recording of the top
\* result, <<>> when there is none.
GetBestAcoustIdRecording(results) ==
  IF results = <<>> THEN <<>>
  ELSE LET top == SortByScore(results)[1]
       IN IF top.recordings # <<>> THEN <<top.recordings[1]>> ELSE <<>>

\* What a request to the matching service yields: a network error, an
\* HTTP status, or a 200 whose body does not parse.
AcoustOutcomes == {"throw", "200", "429", "503", "500", "badjson"}

\* Variant: a transient status is retried as long as it comes back.
AfterAcoustRetryAgain(at, outcome, body) ==
  IF outcome \in {"429", "503"} THEN "acoustid-retry"
  ELSE IF outcome # "200" THEN "meta-done"
  ELSE IF GetBestAcoustIdRecording(body) # <<>>
          /\ GetBestAcoustIdRecording(body)[1] # <<>>
  THEN "mb-fetch"
  ELSE "meta-done"

\* Variant: without a match the art and lyrics lookups still run.
AfterAcoustFanout(at, outcome, body) ==
  IF outcome \in {"429", "503"} /\ at = "acoustid" THEN "acoustid-retry"
  ELSE IF outcome # "200" THEN "meta-done"
  ELSE IF GetBestAcoustIdRecording(body) # <<>>
          /\ GetBestAcoustIdRecording(body)[1] # <<>>
  THEN "mb-fetch"
  ELSE "art"

\* The position after a response of lookupAcoustId: retry once after a
\* 429 or 503 to the first request, fail on any other non-success.
AfterAcoust(at, outcome, body) ==
  IF outcome \in {"429", "503"} /\ at = "acoustid" THEN "acoustid-retry"
  ELSE IF outcome # "200" THEN "meta-done"
  ELSE IF GetBestAcoustIdRecording(body) # <<>>
          /\ GetBestAcoustIdRecording(body)[1] # <<>>
  THEN "mb-fetch"
  ELSE "meta-done"

\* One request of lookupAcoustId and what follows its response.
AcoustId ==
  /\ pc \in {"acoustid", "acoustid-retry"}
  /\ \E outcome \in AcoustOutcomes, body \in AcoustBodies :
       /\ Called("acoustid", outcome)
       /\ pc' = AfterAcoust(pc, outcome, body)
       /\ resolver' = IF pc' = "acoustid-retry" THEN "queried"
                      ELSE IF pc' = "mb-fetch" THEN "matched"
                      ELSE IF outcome = "200" THEN "nomatch"
                      ELSE "failed"
       /\ failed' = IF pc' = "meta-done" /\ outcome # "200"
                    THEN failed \cup {"acoustid"} ELSE failed
       /\ acoust' = IF outcome = "200" THEN <<body>> ELSE <<>>
       /\ bestRec' = IF outcome = "200" THEN GetBestAcoustIdRecording(body)
                     ELSE <<>>
  /\ UNCHANGED <<normalized, baseline, mbData, env, metaFrame, infoJson, discogsQuery>>

\* fetchMusicBrainzRecording, the merge and the credential check of the
\* discography lookup.
MbFetch ==
  /\ pc = "mb-fetch"
  /\ \/ \E outcome \in {"notok", "throw"} :
          /\ Called("musicbrainz", outcome)
          /\ pc' = "meta-done"
          /\ resolver' = "failed"
          /\ failed' = failed \cup {"musicbrainz"}
          /\ UNCHANGED <<normalized, baseline, mbData, env>>
     \/ \E mb \in Mbs, token \in BOOLEAN :
          /\ Called("musicbrainz", "ok")
          /\ normalized' = MergeMusicBrainzMetadata(normalized, mb)
          /\ baseline' = CurrentAfterMerge(baseline, mb)
          /\ mbData' = <<mb>>
          /\ resolver' = "enriched"
          /\ env' = EnvRead("DISCOGS", token)
          /\ pc' = IF token THEN "discogs" ELSE "art"
          /\ UNCHANGED failed
  /\ acoust' = <<>>
  /\ bestRec' = <<>>
  /\ UNCHANGED discogsQuery
  /\ UNCHANGED <<metaFrame, infoJson>>

\* fetchDiscogsMetadata and lines 629-639.
Discogs ==
  /\ pc = "discogs"
  /\ pc' = "art"
  /\ discogsQuery' = <<DiscogsQuery(normalized.artist, normalized.title,
                                    normalized.album)>>
  /\ \/ \E outcome \in {"notok", "throw"} :
          /\ Called("discogs", outcome)
          /\ failed' = failed \cup {"discogs"}
          /\ UNCHANGED normalized
     \/ \E hit \in DiscogsResults :
          /\ Called("discogs", "ok")
          /\ normalized' = ApplyDiscogs(normalized, DiscogsData(hit))
          /\ UNCHANGED failed
  /\ UNCHANGED <<baseline, resolver, mbData, env, metaFrame, infoJson, acoust, bestRec>>

\* Variant: the url is stored without its source tag.
SetArtUntagged(rec, url, type) ==
  [rec EXCEPT !.album_art_url = url]

\* lines 646-649
SetArt(rec, url, type) ==
  [rec EXCEPT !.album_art_url = url, !.album_art_type = type]

CaaUrl(kind, id) == <<"https://coverartarchive.org/", kind, "/">> \o id \o <<"/front">>

\* fetchAlbumArt up to its first request.
ArtStart ==
  /\ pc = "art"
  /\ pc' = IF normalized.release_mbid # <<>> THEN "caa-release"
           ELSE IF normalized.release_group_mbid # <<>> THEN "caa-group"
           ELSE "lastfm-gate"
  /\ UNCHANGED <<failed, metaVars, clientVars, metaFrame>>

\* Variant: a cover request that throws ends the whole fan-out.
AfterCaaEndsFanout(kind, outcome, rec) ==
  IF outcome = "ok" THEN "lyrics"
  ELSE IF outcome = "throw" THEN "meta-done"
  ELSE IF kind = "release" /\ rec.release_group_mbid # <<>> THEN "caa-group"
  ELSE "lastfm-gate"

\* Variant: a cover request that throws leaves extractMetadata and
\* downloadAudio as an error.
AfterCaaFatal(kind, outcome, rec) ==
  IF outcome = "ok" THEN "lyrics"
  ELSE IF outcome = "throw" THEN "cleanup"
  ELSE IF kind = "release" /\ rec.release_group_mbid # <<>> THEN "caa-group"
  ELSE "lastfm-gate"

\* The position after the HEAD request for the cover of `kind`: done when
\* found; the next source when not found; when the request throws,
\* fetchAlbumArt returns undefined and the commercial catalog is next.
AfterCaa(kind, outcome, rec) ==
  IF outcome = "ok" THEN "lyrics"
  ELSE IF outcome = "throw" THEN "spotify-gate"
  ELSE IF kind = "release" /\ rec.release_group_mbid # <<>> THEN "caa-group"
  ELSE "lastfm-gate"

CaaRelease ==
  /\ pc = "caa-release"
  /\ \E outcome \in CallOutcomes :
       /\ Called("caa-release", outcome)
       /\ Failing("cover-art", outcome)
       /\ pc' = AfterCaa("release", outcome, normalized)
       /\ normalized' =
            IF outcome = "ok"
            THEN SetArt(normalized, CaaUrl("release", normalized.release_mbid),
                        <<"cover-art-archive">>)
            ELSE normalized
  /\ UNCHANGED <<baseline, resolver, mbData, env, metaFrame, infoJson, acoust, bestRec, discogsQuery>>

CaaGroup ==
  /\ pc = "caa-group"
  /\ \E outcome \in CallOutcomes :
       /\ Called("caa-group", outcome)
       /\ Failing("cover-art", outcome)
       /\ pc' = AfterCaa("release-group", outcome, normalized)
       /\ normalized' =
            IF outcome = "ok"
            THEN SetArt(normalized,
                        CaaUrl("release-group", normalized.release_group_mbid),
                        <<"cover-art-archive">>)
            ELSE normalized
  /\ UNCHANGED <<baseline, resolver, mbData, env, metaFrame, infoJson, acoust, bestRec, discogsQuery>>

\* lastfmKey && metadata.artist && metadata.album
LastfmGate ==
  /\ pc = "lastfm-gate"
  /\ \E key \in BOOLEAN :
       /\ env' = EnvRead("LASTFM", key)
       /\ pc' = IF key /\ normalized.artist # <<>> /\ normalized.album # <<>>
                THEN "lastfm" ELSE "spotify-gate"
  /\ UNCHANGED <<calls, failed, normalized, baseline, resolver, mbData, metaFrame, infoJson, acoust, bestRec, discogsQuery>>

\* The url the scrobbling service's answer yields, <<>> when it has none.
LastfmUrl(images) ==
  IF images # <<>> THEN LastfmLargeImage(images).text ELSE <<>>

Lastfm ==
  /\ pc = "lastfm"
  /\ \/ \E outcome \in {"notok", "throw"} :
          /\ Called("lastfm", outcome)
          /\ pc' = "spotify-gate"
          /\ failed' = failed \cup {"cover-art"}
          /\ UNCHANGED normalized
     \/ \E images \in LastfmImages \cup {<<>>} :
          /\ Called("lastfm", IF LastfmUrl(images) # <<>> THEN "ok" ELSE "notok")
          /\ Failing("cover-art", IF LastfmUrl(images) # <<>> THEN "ok" ELSE "notok")
          /\ pc' = IF LastfmUrl(images) # <<>> THEN "lyrics" ELSE "spotify-gate"
          /\ normalized' = IF LastfmUrl(images) # <<>>
                           THEN SetArt(normalized, LastfmUrl(images), <<"lastfm">>)
                           ELSE normalized
  /\ UNCHANGED <<baseline, resolver, mbData, env, metaFrame, infoJson, acoust, bestRec, discogsQuery>>

\* getSpotifyAccessToken: the credentials
SpotifyGate ==
  /\ pc = "spotify-gate"
  /\ \E creds \in BOOLEAN :
       /\ env' = EnvRead("SPOTIFY", creds)
       /\ pc' = IF creds THEN "spotify-token" ELSE "lyrics"
  /\ UNCHANGED <<calls, failed, normalized, baseline, resolver, mbData, metaFrame, infoJson, acoust, bestRec, discogsQuery>>

SpotifyToken ==
  /\ pc = "spotify-token"
  /\ \E outcome \in CallOutcomes :
       /\ Called("spotify-token", outcome)
       /\ Failing("cover-art", outcome)
       /\ pc' = IF outcome = "ok" THEN "spotify-search" ELSE "lyrics"
  /\ UNCHANGED <<normalized, baseline, resolver, mbData, env, metaFrame, infoJson, acoust, bestRec, discogsQuery>>

SpotifySearch ==
  /\ pc = "spotify-search"
  /\ pc' = "lyrics"
  /\ \E outcome \in CallOutcomes :
       /\ Called("spotify-search", outcome)
       /\ Failing("cover-art", outcome)
       /\ normalized' = IF outcome = "ok"
                        THEN SetArt(normalized, <<"spotify.jpg">>, <<"spotify">>)
                        ELSE normalized
  /\ UNCHANGED <<baseline, resolver, mbData, env, metaFrame, infoJson, acoust, bestRec, discogsQuery>>

\* What fetchLyrics returns for a lyrics body: data.lyrics.trim() when
\* data.lyrics is a non-empty string.
OvhLyrics(body) == IF body # <<>> THEN Trim(body) ELSE <<>>

\* fetchLyrics, and the record when it returned lyrics
Lyrics ==
  /\ pc = "lyrics"
  /\ \/ \E outcome \in {"notok", "throw"} :
          /\ Called("lyrics-ovh", outcome)
          /\ pc' = "genius-gate"
          /\ failed' = failed \cup {"lyrics"}
          /\ UNCHANGED normalized
     \/ \E body \in LyricsBodies :
          /\ Called("lyrics-ovh", IF OvhLyrics(body) # <<>> THEN "ok" ELSE "notok")
          /\ Failing("lyrics", IF OvhLyrics(body) # <<>> THEN "ok" ELSE "notok")
          /\ pc' = IF OvhLyrics(body) # <<>> THEN "meta-done" ELSE "genius-gate"
          /\ normalized' = IF OvhLyrics(body) # <<>>
                           THEN [normalized EXCEPT !.lyrics = OvhLyrics(body)]
                           ELSE normalized
  /\ UNCHANGED <<baseline, resolver, mbData, env, metaFrame, infoJson, acoust, bestRec, discogsQuery>>

GeniusGate ==
  /\ pc = "genius-gate"
  /\ \E token \in BOOLEAN :
       /\ env' = EnvRead("GENIUS", token)
       /\ pc' = IF token THEN "genius" ELSE "meta-done"
  /\ UNCHANGED <<calls, failed, normalized, baseline, resolver, mbData, metaFrame, infoJson, acoust, bestRec, discogsQuery>>

Genius ==
  /\ pc = "genius"
  /\ pc' = "meta-done"
  /\ \E outcome \in CallOutcomes :
       /\ Called("genius", outcome)
       /\ Failing("lyrics", outcome)
       /\ normalized' = IF outcome = "ok"
                        THEN [normalized EXCEPT
                                !.lyrics = GeniusReference(<<"genius.com/song">>)]
                        ELSE normalized
  /\ UNCHANGED <<baseline, resolver, mbData, env, metaFrame, infoJson, acoust, bestRec, discogsQuery>>

\* extractMetadata returns its record to downloadAudio; the history of the
\* call ends with it.
MetaReturn ==
  /\ pc = "meta-done"
  /\ pc' = "read-audio"
  /\ baseline' = EmptyMeta
  /\ resolver' = "none"
  /\ mbData' = <<>>
  /\ env' = [n \in EnvNames |-> "unread"]
  /\ calls' = <<>>
  /\ infoJson' = <<>>
  /\ acoust' = <<>>
  /\ bestRec' = <<>>
  /\ discogsQuery' = <<>>
  /\ UNCHANGED <<normalized, failed, metaFrame>>

\* ------------------------------------------ the rest of downloadAudio
\* readFile(audioFile), then the branch on the requested format.
ReadAudio ==
  /\ FatalCall("read-audio", "read-audio",
               IF req.format = "aiff" THEN "upd-converting" ELSE "mkdir-save",
               "cleanup", { <<"ENOENT">> }, "downloadAudio")
  /\ UNCHANGED sessionDir

\* Variant: the conversion is announced at 40 percent.
UpdConvertingAtForty ==
  /\ ProgressStep("upd-converting", "convert", "converting", 40,
                  <<"Converting to AIFF format with metadata...">>,
                  <<"AIFF Conversion">>)

UpdConverting ==
  /\ ProgressStep("upd-converting", "convert", "converting", 70,
                  <<"Converting to AIFF format with metadata...">>,
                  <<"AIFF Conversion">>)

\* ----------------------------------------------------- convertToAIFF
\* downloadAlbumArt when the record has an art url; its failure is swallowed.
DownloadAlbumArt ==
  /\ pc = "convert"
  /\ pc' = "ffmpeg"
  /\ IF normalized.album_art_url # <<>>
     THEN /\ consulted' = Append(consulted, "album-art-download")
          /\ \/ UNCHANGED failed
             \/ failed' = failed \cup {"album-art-download"}
     ELSE UNCHANGED <<consulted, failed>>
  /\ UNCHANGED <<storeVars, metaVars, clientVars, req, sessionDir, issued, lostWrites, thrown,
                 result>>

Ffmpeg ==
  /\ FatalCall("ffmpeg", "ffmpeg", "access", "cleanup", { <<"command failed">> },
               "convertToAIFF")
  /\ UNCHANGED sessionDir

AccessOutput ==
  /\ FatalCall("access", "access", "ffprobe", "cleanup",
               { <<"FFmpeg output file not found">> }, "convertToAIFF")
  /\ UNCHANGED sessionDir

\* verifyMetadata: a failure of ffprobe is reported, never thrown.
VerifyMetadata ==
  /\ pc = "ffprobe"
  /\ pc' = "read-aiff"
  /\ consulted' = Append(consulted, "ffprobe")
  /\ \/ UNCHANGED failed
     \/ failed' = failed \cup {"ffprobe"}
  /\ UNCHANGED <<storeVars, metaVars, clientVars, req, sessionDir, issued, lostWrites, thrown,
                 result>>

ReadAiff ==
  /\ FatalCall("read-aiff", "read-aiff", "mkdir-save", "cleanup", { <<"ENOENT">> },
               "convertToAIFF")
  /\ UNCHANGED sessionDir

\* ------------------------------------------------- saving and responding
MkdirSave ==
  /\ FatalCall("mkdir-save", "mkdir-save",
               IF req.format = "aiff" THEN "upd-tagging" ELSE "copy",
               "cleanup", { <<"EACCES">> }, "POST")
  /\ UNCHANGED sessionDir

UpdTagging ==
  /\ ProgressStep("upd-tagging", "copy", "tagging", 90,
               <<"Saving file to destination...">>, <<"File Copy">>)

CopyFile ==
  /\ FatalCall("copy", "copy", "upd-completed", "cleanup", { <<"ENOSPC">> }, "POST")
  /\ UNCHANGED sessionDir
\* Variant: the job ends without announcing its completion.
UpdCompletedSilent ==
  /\ pc = "upd-completed"
  /\ pc' = "cleanup"
  /\ UNCHANGED <<storeVars, metaVars, clientVars, req, sessionDir, consulted, failed,
                 issued, lostWrites, thrown, result>>

UpdCompleted ==
  /\ ProgressStep("upd-completed", "cleanup", "completed", 100,
               <<"Download completed successfully!">>, <<"Complete">>)
\* Variant: a failed removal replaces the job's outcome by its own error.
CleanupThrowing ==
  /\ pc = "cleanup"
  /\ pc' = "respond"
  /\ consulted' = Append(consulted, "rm")
  /\ \/ /\ sessionDir' = "removed"
        /\ UNCHANGED <<failed, thrown>>
     \/ /\ sessionDir' = "kept"
        /\ failed' = failed \cup {"rm"}
        /\ thrown' = << <<"rm failed">>, <<"rm failed">> >>
  /\ UNCHANGED <<storeVars, metaVars, clientVars, req, issued, lostWrites, result>>

\* finally: rm -rf of the session directory; its failure is only logged.
Cleanup ==
  /\ pc = "cleanup"
  /\ pc' = "respond"
  /\ consulted' = Append(consulted, "rm")
  /\ \/ /\ sessionDir' = "removed"
        /\ UNCHANGED failed
     \/ /\ sessionDir' = "kept"
        /\ failed' = failed \cup {"rm"}
  /\ UNCHANGED <<storeVars, metaVars, clientVars, req, issued, lostWrites, thrown, result>>

\* The response: the success object, or the outer catch's 500.
DownloadResponse(error, metadata) ==
  IF error = <<>>
  THEN [status |-> 200, success |-> TRUE, error |-> <<>>, metadata |-> <<metadata>>]
  ELSE [status |-> 500, success |-> FALSE,
        error |-> <<"Failed to download audio:", WS>> \o error[1],
        metadata |-> <<>>]

Respond ==
  /\ pc = "respond"
  /\ pc' = "returned"
  /\ result' = DownloadResponse(thrown, normalized)
  /\ UNCHANGED <<storeVars, metaVars, clientVars, req, sessionDir, consulted, failed, issued,
                 lostWrites, thrown>>

\* ================================================================ the page
\* What the extraction tool reports for a submitted url: whether it is a
\* playlist, and the video id of each track (<<>>: no id).
AnalyzeResults ==
  { [isPlaylist |-> FALSE, ids |-> << <<"v1">> >>],
    [isPlaylist |-> FALSE, ids |-> << <<>> >>],
    [isPlaylist |-> TRUE, ids |-> << <<"v1">>, <<"v2">> >>],
    [isPlaylist |-> TRUE, ids |-> << <<"v2">>, <<>> >>] }

\* The decimal text of a zero-based index.
IndexText(index) == IF index = 0 THEN "0" ELSE IF index = 1 THEN "1" ELSE "2"

\* The id the analyze route gives a track.
UniqueId(isPlaylist, id, index) ==
  IF isPlaylist
  THEN IF id # <<>> THEN id \o <<"-", IndexText(index)>>
       ELSE <<"playlist-track-", IndexText(index)>>
  ELSE IF id # <<>> THEN <<"single-">> \o id ELSE <<"single-track-0">>

\* The tracks of the analyze route's answer, all pending.
ProcessedTracks(found) ==
  [i \in 1..Len(found.ids) |->
     [id |-> UniqueId(found.isPlaylist, found.ids[i], i - 1), status |-> "pending"]]

\* Track statuses for which the download button is disabled.
Busy == {"analyzing", "downloading", "converting", "enriching", "tagging"}

\* setPlaylist(prev => prev ? {...prev, tracks: prev.tracks.map(...)} : null)
WithStatus(list, trackId, status) ==
  IF list = <<>> THEN <<>>
  ELSE << [i \in 1..Len(list[1]) |->
             IF list[1][i].id = trackId
             THEN [list[1][i] EXCEPT !.status = status] ELSE list[1][i]] >>

Without(s, k) == SubSeq(s, 1, k - 1) \o SubSeq(s, k + 1, Len(s))

InitPage ==
  /\ isLoading = FALSE
  /\ sent = <<>>
  /\ awaiting = <<>>
  /\ timers = <<>>
  /\ handles = 0
  /\ intervals = {}
  /\ progressPolling = {}
  /\ closure = {}

InitClient ==
  /\ playlist = <<>>
  /\ InitPage

\* handleSubmit up to its request to /api/analyze
HandleSubmit ==
  /\ ~isLoading
  /\ isLoading' = TRUE
  /\ playlist' = <<>>
  /\ UNCHANGED <<sent, awaiting, pollVars, storeVars, metaVars, jobVars>>

\* handleSubmit after /api/analyze answered: the tracks, or an error
AnalyzeSettled ==
  /\ isLoading
  /\ isLoading' = FALSE
  /\ \/ \E found \in AnalyzeResults : playlist' = <<ProcessedTracks(found)>>
     \/ UNCHANGED playlist
  /\ UNCHANGED <<sent, awaiting, pollVars, storeVars, metaVars, jobVars>>

\* The handles a progressPolling map has under a job id: none or one.
HandlesOf(map, trackId) == {p[2] : p \in {q \in map : q[1] = trackId}}

\* The cleanup of the effect on progressPolling, run at every change of the
\* map: every interval of the map as it was rendered is cleared.
EffectCleanup(live, rendered) == {p \in live : \A q \in rendered : q[2] # p[2]}

\* A click on the button of track i: handleDownload up to its request to
\* /api/download, with the timer that will start the polling.
Click(i) ==
  /\ playlist[1][i].status \notin Busy
  /\ playlist' = WithStatus(playlist, playlist[1][i].id, "analyzing")
  /\ sent' = Append(sent, playlist[1][i].id)
  /\ awaiting' = Append(awaiting, [id |-> playlist[1][i].id, seen |-> closure])
  /\ timers' = Append(timers, playlist[1][i].id)
  /\ UNCHANGED <<isLoading, handles, intervals, progressPolling, closure,
                 storeVars, metaVars, jobVars>>

HandleDownload ==
  /\ playlist # <<>>
  /\ Len(sent) < MaxDownloads
  /\ \E i \in 1..Len(playlist[1]) : Click(i)

\* handleDownload after /api/download answered request k.  Its catch looks
\* the interval up in the progressPolling map of its own closure.
Settled(k, success) ==
  LET trackId == awaiting[k].id
      seen == HandlesOf(awaiting[k].seen, trackId)
  IN /\ awaiting' = Without(awaiting, k)
     /\ playlist' = WithStatus(playlist, trackId,
                               IF success THEN "completed" ELSE "error")
     /\ IF ~success /\ seen # {}
        THEN /\ progressPolling' = {p \in progressPolling : p[1] # trackId}
             /\ intervals' = EffectCleanup({p \in intervals : p[2] \notin seen},
                                           progressPolling)
        ELSE UNCHANGED <<progressPolling, intervals>>
     /\ UNCHANGED <<isLoading, sent, timers, handles, closure, storeVars>>

\* The answer of a server that is not modelled: success or failure.
DownloadSettled ==
  /\ \E k \in 1..Len(awaiting), success \in BOOLEAN : Settled(k, success)
  /\ UNCHANGED <<metaVars, jobVars>>

\* The timer of handleDownload fires: startProgressPolling(trackId).
StartProgressPolling ==
  /\ timers # <<>>
  /\ timers' = Tail(timers)
  /\ handles' = handles + 1
  /\ progressPolling' = {p \in progressPolling : p[1] # Head(timers)}
                          \cup {<<Head(timers), handles + 1>>}
  /\ intervals' = EffectCleanup(intervals, progressPolling)
                    \cup {<<Head(timers), handles + 1>>}
  /\ UNCHANGED <<playlist, isLoading, sent, awaiting, closure, storeVars,
                 metaVars, jobVars>>

\* Variant: an answer without a state ends the polling as well.
StopsPollingOnMissing(answer) ==
  answer.status # 200 \/ answer.body[1].entry.status \in Terminal

\* The answer of a read after which pollProgress stops the polling.
StopsPolling(answer) ==
  answer.status = 200 /\ answer.body[1].entry.status \in Terminal

\* A live interval fires: pollProgress(trackId), the read and what the page
\* does with its answer.
PollProgress ==
  \E p \in intervals :
    LET answer == GetResponse(progressStore, p[1], now) IN
    /\ response' = answer
    /\ playlist' = IF answer.status = 200
                   THEN WithStatus(playlist, p[1], answer.body[1].entry.status)
                   ELSE playlist
    /\ IF StopsPolling(answer)
       THEN /\ progressPolling' = {q \in progressPolling : q[1] # p[1]}
            /\ intervals' = EffectCleanup(intervals, progressPolling)
       ELSE UNCHANGED <<progressPolling, intervals>>
    /\ UNCHANGED <<progressStore, now, lastOp, isLoading, sent, awaiting,
                   timers, handles, closure, metaVars, jobVars>>

\* The user edits the url or the save directory: handleDownload is made
\* anew and closes over the progressPolling map of that render.
ChangeUrl ==
  /\ closure # progressPolling
  /\ closure' = progressPolling
  /\ UNCHANGED <<playlist, isLoading, sent, awaiting, timers, handles,
                 intervals, progressPolling, storeVars, metaVars, jobVars>>

\* ------------------------------------- the page, its server and the tracker
\* The playlist on display: one track whose id is a key of the tracker.
InitPoll ==
  /\ InitStore
  /\ InitJob
  /\ InitPage
  /\ playlist = << <<[id |-> 1, status |-> "pending"]>> >>

\* A click by a user who waits for the answer before the next click.
PolledDownload ==
  /\ Len(sent) < MaxRuns
  /\ awaiting = <<>>
  /\ \E i \in 1..Len(playlist[1]) : Click(i)

\* The request of the page reaches the route, with the url field as it is.
ReceivePageRequest ==
  /\ awaiting # <<>>
  /\ \E hasUrl \in BOOLEAN : Receive(hasUrl, awaiting[1].id, "aiff")

\* The response of the route reaches handleDownload; the route is free for
\* the next request.
DownloadAnswered ==
  /\ pc = "returned"
  /\ Settled(1, result.success)
  /\ pc' = "idle"
  /\ req' = [trackId |-> NoId, format |-> "aiff", audioFile |-> FALSE, at |-> 0]
  /\ sessionDir' = "none"
  /\ normalized' = EmptyMeta
  /\ consulted' = <<>>
  /\ failed' = {}
  /\ issued' = <<>>
  /\ lostWrites' = 0
  /\ thrown' = <<>>
  /\ result' = NoResult
  /\ UNCHANGED <<baseline, resolver, mbData, env, calls, infoJson, acoust,
                 bestRec, discogsQuery>>

\* What downloadAudio does once the file has arrived, taken as one step:
\* find, extractMetadata and readFile.  It hands the record on, or one of the
\* calls that can fail throws and its catch rewrites the error.
DownloadAudioRest ==
  /\ pc = "find"
  /\ consulted' = Append(consulted, "find")
  /\ \/ /\ pc' = "upd-converting"
        /\ normalized' = Normalize(InfoBare, Enhanced(InfoBare))
        /\ UNCHANGED <<failed, thrown>>
     \/ \E name \in {"find", "read-audio"} :
          /\ pc' = "cleanup"
          /\ failed' = failed \cup {name}
          /\ thrown' = <<DownloadError(<<"command failed">>), <<"command failed">> >>
          /\ UNCHANGED normalized
  /\ UNCHANGED <<baseline, resolver, mbData, env, calls, infoJson, acoust, bestRec,
                 discogsQuery, storeVars, clientVars, req, sessionDir, issued,
                 lostWrites, result>>

\* convertToAIFF and the mkdir of the save directory, taken as one step.
ConvertAndSave ==
  /\ pc = "convert"
  /\ consulted' = Append(consulted, "ffmpeg")
  /\ \/ /\ pc' = "upd-tagging"
        /\ UNCHANGED <<failed, thrown>>
     \/ /\ pc' = "cleanup"
        /\ failed' = failed \cup {"ffmpeg"}
        /\ thrown' = <<ConversionError(<<"command failed">>), <<"command failed">> >>
  /\ UNCHANGED <<storeVars, metaVars, clientVars, req, sessionDir, issued, lostWrites,
                 result>>

\* The download tool under the page: it succeeds or times out.
YtDlpForPage == RunYtDlp({ <<"timeout">> })

\* Time passes on the page and its server.  The clock is coarse: it moves
\* while the route is idle, so the writes of one job carry one timestamp and
\* the entries of different jobs can carry different ones.
Elapse ==
  /\ pc = "idle"
  /\ now < MaxTime
  /\ now' = now + 1
  /\ UNCHANGED <<progressStore, response, lastOp, metaVars, clientVars, jobVars>>

NextClient == HandleSubmit \/ AnalyzeSettled \/ HandleDownload \/ DownloadSettled

NextJob ==
  \/ ReceiveRequest \/ UpdAnalyzing \/ MkdirSession \/ UpdDownloading
  \/ UpdDownloading25 \/ YtDlp \/ UpdDownloading45 \/ FindAudio
  \/ MetaJson \/ Fpcalc \/ AcoustId \/ MbFetch \/ Discogs \/ ArtStart
  \/ CaaRelease \/ CaaGroup \/ LastfmGate \/ Lastfm \/ SpotifyGate
  \/ SpotifyToken \/ SpotifySearch \/ Lyrics \/ GeniusGate \/ Genius
  \/ MetaReturn \/ ReadAudio \/ UpdConverting \/ DownloadAlbumArt \/ Ffmpeg \/ AccessOutput
  \/ VerifyMetadata \/ ReadAiff \/ MkdirSave \/ UpdTagging \/ CopyFile
  \/ UpdCompleted \/ Cleanup \/ Respond

NextStore == Tick \/ ProgressGet \/ ProgressPost \/ ProgressDelete

Init == InitStore /\ InitJob /\ InitClient

\* The progress tracker under arbitrary clients.
SpecStore == Init /\ [][NextStore]_vars

\* One download request from its arrival to its response.
SpecJob == Init /\ [][NextJob]_vars

\* One call of extractMetadata, with or without the path of an audio file
\* (the download route passes one, the analyze route does not).
InitMeta ==
  /\ InitStore
  /\ InitClient
  /\ InitRun
  /\ pc = "meta-json"
  /\ \E audioFile \in BOOLEAN :
       req = [trackId |-> NoId, format |-> "aiff", audioFile |-> audioFile, at |-> 0]

NextMeta ==
  \/ MetaJson \/ Fpcalc \/ AcoustId \/ MbFetch \/ Discogs \/ ArtStart
  \/ CaaRelease \/ CaaGroup \/ LastfmGate \/ Lastfm \/ SpotifyGate
  \/ SpotifyToken \/ SpotifySearch \/ Lyrics \/ GeniusGate \/ Genius

SpecMeta == InitMeta /\ [][NextMeta]_vars

\* The page under a user who analyses urls and clicks download buttons.
SpecClient == Init /\ [][NextClient]_vars

NextPoll ==
  \/ PolledDownload \/ StartProgressPolling \/ PollProgress \/ ChangeUrl
  \/ ReceivePageRequest \/ DownloadAnswered \/ Elapse
  \/ UpdAnalyzing \/ MkdirSession \/ UpdDownloading \/ UpdDownloading25
  \/ YtDlpForPage \/ UpdDownloading45 \/ DownloadAudioRest \/ UpdConverting
  \/ ConvertAndSave \/ UpdTagging \/ CopyFile \/ UpdCompleted \/ Cleanup
  \/ Respond

\* The page polling the tracker while its server runs the downloads.
SpecPoll == InitPoll /\ [][NextPoll]_vars

\* ==================================================================== claims
\* The entry the last client operation addressed.
Addressed == Entry(progressStore, lastOp.trackId)
WroteExisting ==
  lastOp.op = "POST" /\ lastOp.trackId # NoId /\ lastOp.before # <<>>
LastIssued == issued[Len(issued)]
JobFailedInLeg ==
  /\ pc = "returned"
  /\ result.status = 500
  /\ failed \cap {"yt-dlp", "find", "read-audio", "ffmpeg", "access", "read-aiff"} # {}

\* C1: when the audio download or the conversion of a job fails, the job's
\* progress entry is in phase `error` with a message by the time the job
\* has reported the failure (every progress write having reached the
\* tracker).
C1_FailedJobEntryIsError ==
  (JobFailedInLeg /\ req.trackId # NoId /\ lostWrites = 0) =>
    /\ Has(progressStore, req.trackId)
    /\ Entry(progressStore, req.trackId).status = "error"
    /\ Entry(progressStore, req.trackId).message # <<>>

\* C2: a read of a job id that has no entry is answered 404 'Progress not
\* found' without a state object; a read of an id that has one is not.
C2_ReadOfMissingIsNotFound ==
  (response.op = "GET" /\ response.trackId # NoId) =>
    IF Has(progressStore, response.trackId)
    THEN response.status = 200 /\ response.body # <<>>
    ELSE /\ response.status = 404
         /\ response.error = <<"Progress not found">>
         /\ response.body = <<>>

\* A read found no entry for an id that was not written, while the other
\* id holds an entry with percentage 0.
C2_Witness ==
  /\ response.op = "GET"
  /\ response.status = 404
  /\ ~Has(progressStore, response.trackId)
  /\ \E other \in TrackIds :
       Has(progressStore, other) /\ Entry(progressStore, other).progress = 0

\* The percentage the clamping rule gives a supplied value.
ClampedTo(supplied) ==
  IF supplied = None THEN 0
  ELSE IF supplied[1] > 100 THEN 100
  ELSE IF supplied[1] < 0 THEN 0
  ELSE supplied[1]

\* C3: every stored percentage lies in 0..100, and the entry a write
\* leaves holds the supplied percentage cut to that range: 100 for a value
\* above 100, 0 for a value below 0 and for a missing one.
C3_PercentageClamped ==
  /\ \A id \in TrackIds :
       Has(progressStore, id) => Entry(progressStore, id).progress \in 0..100
  /\ (lastOp.op = "POST" /\ lastOp.trackId # NoId) =>
       Addressed.progress = ClampedTo(lastOp.body[1].progress)

\* A write supplied 150 and left 100 while another entry, written with -5
\* or without a percentage, holds 0.
C3_Witness ==
  /\ lastOp.op = "POST"
  /\ lastOp.trackId # NoId
  /\ lastOp.body[1].progress = Some(150)
  /\ Addressed.progress = 100
  /\ \E other \in TrackIds : Has(progressStore, other)
                             /\ Entry(progressStore, other).progress = 0

\* C4: a write to an id that has an entry leaves the entry's start
\* timestamp as it was, and the first write sets it to the time of the write.
C4_StartTimePreserved ==
  (lastOp.op = "POST" /\ lastOp.trackId # NoId) =>
    Addressed.startTime = IF lastOp.before # <<>>
                          THEN lastOp.before[1].startTime ELSE lastOp.time

\* A write arrived later than the first write of its entry.
C4_Witness ==
  /\ WroteExisting
  /\ lastOp.time > lastOp.before[1].startTime
  /\ Addressed.startTime = lastOp.before[1].startTime

\* The optional attributes of an entry.
Optionals == {"currentOperation", "bytesDownloaded", "totalBytes", "error"}

\* C5 as stated: a write to an existing entry keeps every attribute the
\* update does not supply.
C5_WriteMerges ==
  WroteExisting =>
    /\ lastOp.body[1].message = None => Addressed.message = lastOp.before[1].message
    /\ \A k \in Optionals :
         lastOp.body[1][k] = None => Addressed[k] = lastOp.before[1][k]

\* C5 amended: a write to an existing entry replaces it except for the
\* start timestamp: an attribute the update does not supply is reset (the
\* message to the empty string, the percentage to 0, the operation label,
\* the byte counters and the error to unset), the start timestamp is kept.
C5_WriteReplaces ==
  WroteExisting =>
    /\ lastOp.body[1].message = None => Addressed.message = <<>>
    /\ lastOp.body[1].progress = None => Addressed.progress = 0
    /\ \A k \in Optionals : Addressed[k] = lastOp.body[1][k]
    /\ Addressed.startTime = lastOp.before[1].startTime

\* A write without optional attributes hit an entry that had them all.
C5_Witness ==
  /\ WroteExisting
  /\ lastOp.body[1].message = None
  /\ lastOp.before[1].message # <<>>
  /\ \A k \in Optionals : lastOp.body[1][k] = None /\ lastOp.before[1][k] # None
  /\ Addressed.message = <<>>

\* C6: once an entry is in phase `completed` or `error`, a later write to
\* its id does not change the phase.
C6_TerminalPhaseKept ==
  (WroteExisting /\ lastOp.before[1].status \in Terminal) =>
    Addressed.status = lastOp.before[1].status

\* The value the resolved recording supplies for a field of the record.
ResolverValue(mb, field) ==
  CASE field = "title" -> mb.title
    [] field = "artist" -> MbArtist(mb)
    [] field = "album" -> MbAlbumTitle(mb)
    [] field = "date" -> MbDate(mb)
    [] field = "genre" -> MbGenre(mb)

ResolverFields == {"title", "artist", "album", "date", "genre"}

\* C7: from the merge of a resolved recording on, through the catalog, art
\* and lyrics steps and in the record extractMetadata returns, every
\* resolver-owned field for which the recording supplies a value holds
\* exactly that value.
C7_ResolverPrecedence ==
  mbData # <<>> =>
    \A f \in ResolverFields :
      ResolverValue(mbData[1], f) # <<>> => normalized[f] = ResolverValue(mbData[1], f)

HasCalled(name, outcome) ==
  \E i \in 1..Len(calls) : calls[i] = [call |-> name, outcome |-> outcome]

\* extractMetadata returned after the catalog answered and lyrics were set,
\* with a recording whose genre and date differ from the Normalizer's.
C7_Witness ==
  /\ pc = "meta-done"
  /\ mbData # <<>>
  /\ \A f \in {"title", "artist", "date", "genre"} :
       /\ ResolverValue(mbData[1], f) # <<>>
       /\ baseline[f] # <<>>
       /\ baseline[f] # ResolverValue(mbData[1], f)
  /\ HasCalled("discogs", "ok")
  /\ normalized.lyrics # <<>>

CatalogFields == {"genre", "label", "country", "date"}

\* C8: the catalog lookup leaves every one of genre, label, country and
\* date that was set before it as it was.
C8_CatalogOnlyBackfills ==
  [][pc = "discogs" =>
       \A f \in CatalogFields : normalized[f] # <<>> => normalized'[f] = normalized[f]]_vars

\* C9: a job in which no leg of the download, the conversion and the save
\* fails reports success after a `completed` write of 100, whatever the
\* enrichment calls did, and that write is what the entry holds when it
\* reached the tracker.
C9_EnrichmentNeverFatal ==
  (pc = "returned" /\ result.status # 400 /\ failed \cap FatalLegs = {}) =>
    /\ result.status = 200
    /\ result.success
    /\ result.metadata = <<normalized>>
    /\ LastIssued = [status |-> "completed", progress |-> 100]
    /\ (lostWrites = 0 /\ req.trackId # NoId) =>
         /\ Has(progressStore, req.trackId)
         /\ Entry(progressStore, req.trackId).status = "completed"

\* A job succeeded although the catalog, every art source and both lyrics
\* sources failed.
C9_Witness ==
  /\ pc = "returned"
  /\ result.success
  /\ {"discogs", "cover-art", "lyrics"} \subseteq failed
  /\ normalized.lyrics = <<>>
  /\ req.trackId # NoId
  /\ Has(progressStore, req.trackId)
  /\ Entry(progressStore, req.trackId).status = "completed"

\* C10: when the resolver is skipped, finds no match or fails, the record
\* extractMetadata returns is the Normalizer's record.
C10_FallbackIsNormalizerRecord ==
  (pc = "meta-done" /\ resolver \in {"skipped", "nomatch", "failed"}) =>
    normalized = baseline

\* The catalog fetch failed after a match, and the Normalizer's record came
\* back.
C10_Witness ==
  /\ pc = "meta-done"
  /\ resolver = "failed"
  /\ HasCalled("musicbrainz", "notok")
  /\ normalized = baseline
  /\ baseline.label # <<>>
\* The requests of the running extractMetadata to `name`, in order.
CallsTo(name) == SelectSeq(calls, LAMBDA c : c.call = name)
Transient == {"429", "503"}
LookupOver == pc \notin {"acoustid", "acoustid-retry"}

\* C11: the matching lookup sends at most two requests; a second one is
\* sent exactly when the first response was 429 or 503; and when the last
\* response is not a success (a second 429 or 503 included) the resolver
\* stage has failed and extractMetadata holds the Normalizer's record.
C11_RetryOnceOnTransient ==
  LET reqs == CallsTo("acoustid") IN
  /\ Len(reqs) <= 2
  /\ Len(reqs) = 2 => reqs[1].outcome \in Transient
  /\ (Len(reqs) >= 1 /\ LookupOver) =>
       /\ Len(reqs) = IF reqs[1].outcome \in Transient THEN 2 ELSE 1
       /\ reqs[Len(reqs)].outcome # "200" =>
            /\ pc = "meta-done"
            /\ resolver = "failed"
            /\ "acoustid" \in failed
            /\ normalized = baseline

\* A 503 was retried, the retry was answered 429, and the stage failed.
C11_Witness ==
  /\ CallsTo("acoustid") = << [call |-> "acoustid", outcome |-> "503"],
                              [call |-> "acoustid", outcome |-> "429"] >>
  /\ pc = "meta-done"
  /\ resolver = "failed"
\* The requests that can yield a cover URL, in fallback order.
ArtSources == <<"caa-release", "caa-group", "lastfm", "spotify-search">>
ArtSourceNames == {ArtSources[i] : i \in 1..Len(ArtSources)}
ArtFound == \E n \in ArtSourceNames : HasCalled(n, "ok")
ArtTried == \E i \in 1..Len(calls) : calls[i].call \in ArtSourceNames \cup {"spotify-token"}
\* The free lookup returned lyrics.
FreeLyricsFound == HasCalled("lyrics-ovh", "ok")
LyricsFound == FreeLyricsFound \/ HasCalled("genius", "ok")
FanoutDone == pc = "meta-done" /\ resolver = "enriched"

\* C12 as stated: when every cover-art source fails or returns nothing and
\* a lyrics lookup succeeds, the record has lyrics and an unset album-art URL.
C12_ArtUnsetLyricsSet ==
  (FanoutDone /\ ~ArtFound /\ LyricsFound) =>
    /\ normalized.lyrics # <<>>
    /\ normalized.album_art_url = <<>>

\* C12 amended: when every cover-art source fails or returns nothing and a
\* lyrics lookup succeeds, the record has lyrics, and its album-art URL is
\* what the Normalizer put there (the extractor's thumbnail, or empty) with
\* no source tag; the lyrics lookup runs whatever the art lookups did, and
\* found art stays in the record when every lyrics lookup fails.
C12_FanoutIndependence ==
  FanoutDone =>
    /\ Len(CallsTo("lyrics-ovh")) = 1
    /\ (~ArtFound /\ LyricsFound) =>
         /\ normalized.lyrics # <<>>
         /\ normalized.album_art_url = baseline.album_art_url
         /\ normalized.album_art_type = <<>>
    /\ (ArtFound /\ ~LyricsFound) =>
         /\ normalized.lyrics = <<>>
         /\ normalized.album_art_url # <<>>
         /\ normalized.album_art_url # baseline.album_art_url
         /\ normalized.album_art_type # <<>>

\* Every art request failed, one of them by throwing, the free lookup
\* returned lyrics, and the record still carries the thumbnail.
C12_Witness ==
  /\ FanoutDone
  /\ ArtTried
  /\ ~ArtFound
  /\ \E i \in 1..Len(calls) : calls[i].call \in ArtSourceNames /\ calls[i].outcome = "throw"
  /\ FreeLyricsFound
  /\ normalized.lyrics # <<>>
  /\ normalized.album_art_url = <<"thumb.jpg">>
\* C13: a fan-out source is consulted whenever its own configuration is
\* present, whether or not the fingerprint resolver is configured or finds
\* a match; in particular the free lyrics lookup, which needs no
\* credential, is consulted in every extractMetadata call whose Normalizer
\* record was built.
C13_FanoutIndependentOfResolver ==
  (pc = "meta-done" /\ HasCalled("yt-dlp-json", "ok")) =>
    Len(CallsTo("lyrics-ovh")) >= 1

\* Position of a cover source in the fallback order.
ArtIndex(name) == CHOOSE i \in 1..Len(ArtSources) : ArtSources[i] = name
ArtCalls == SelectSeq(calls, LAMBDA c : c.call \in ArtSourceNames)
ArtTag(name) ==
  CASE name \in {"caa-release", "caa-group"} -> <<"cover-art-archive">>
    [] name = "lastfm" -> <<"lastfm">>
    [] name = "spotify-search" -> <<"spotify">>
\* The urls a cover source can have yielded for the record.
ArtUrls(name, rec) ==
  CASE name = "caa-release" -> {CaaUrl("release", rec.release_mbid)}
    [] name = "caa-group" -> {CaaUrl("release-group", rec.release_group_mbid)}
    [] name = "lastfm" -> {LastfmUrl(images) : images \in LastfmImages} \ {<<>>}
    [] name = "spotify-search" -> {<<"spotify.jpg">>}
AfterArt == pc \in {"lyrics", "genius-gate", "genius", "meta-done"}

\* C14: cover sources are consulted in the order release archive,
\* release-group archive, scrobbling service, commercial catalog; none is
\* consulted after one yielded a url; and the record's album-art url and
\* source tag are those of the source that yielded.
C14_FirstArtWins ==
  /\ \A i, j \in 1..Len(ArtCalls) :
       i < j => ArtIndex(ArtCalls[i].call) < ArtIndex(ArtCalls[j].call)
  /\ \A i \in 1..Len(ArtCalls) : ArtCalls[i].outcome = "ok" => i = Len(ArtCalls)
  /\ (ArtFound /\ AfterArt) =>
       /\ normalized.album_art_type = ArtTag(ArtCalls[Len(ArtCalls)].call)
       /\ normalized.album_art_url \in ArtUrls(ArtCalls[Len(ArtCalls)].call, normalized)

\* All four sources were asked in order and only the last one yielded.
C14_Witness ==
  /\ pc = "meta-done"
  /\ Len(ArtCalls) = 4
  /\ \A i \in 1..3 : ArtCalls[i].outcome = "notok"
  /\ ArtCalls[4] = [call |-> "spotify-search", outcome |-> "ok"]
  /\ normalized.album_art_type = <<"spotify">>
  /\ normalized.album_art_url = <<"spotify.jpg">>

\* The non-empty results of the free lookup.
FreeLyrics == {OvhLyrics(body) : body \in LyricsBodies} \ {<<>>}
ReferencePrefix == <<"Lyrics", WS, "available", WS, "at:", WS>>

\* C15: the commercial lyrics search is gated and consulted only after the
\* free lookup returned nothing or failed; lyrics the free lookup yields
\* are the record's lyrics; and when the commercial search succeeds the
\* record's lyrics are a reference string to a url, never a lyrics body.
C15_LyricsFallback ==
  /\ (env.GENIUS # "unread" \/ CallsTo("genius") # <<>>) =>
       /\ Len(CallsTo("lyrics-ovh")) = 1
       /\ CallsTo("lyrics-ovh")[1].outcome # "ok"
  /\ (pc = "meta-done" /\ FreeLyricsFound) =>
       /\ normalized.lyrics \in FreeLyrics
       /\ CallsTo("genius") = <<>>
  /\ (pc = "meta-done" /\ HasCalled("genius", "ok")) =>
       /\ Len(normalized.lyrics) > Len(ReferencePrefix)
       /\ SubSeq(normalized.lyrics, 1, Len(ReferencePrefix)) = ReferencePrefix
       /\ normalized.lyrics \notin FreeLyrics

\* The free lookup answered with blank lyrics, the commercial search found
\* a hit, and the record holds the reference to its page.
C15_Witness ==
  /\ pc = "meta-done"
  /\ CallsTo("lyrics-ovh") = << [call |-> "lyrics-ovh", outcome |-> "notok"] >>
  /\ HasCalled("genius", "ok")
  /\ normalized.lyrics = ReferencePrefix \o <<"genius.com/song">>
\* C16: a read of an existing entry with elapsed time e and percentage p
\* returns the estimate e * (100/p - 1) when p >= 1 and the phase is not
\* `completed`, 0 when the phase is `completed`, 0 when p = 0; the estimate
\* is never negative and is 0 at p = 100.  The estimate is the fraction
\* r[1] / r[2].
C16_EstimatedRemaining ==
  (response.op = "GET" /\ response.status = 200) =>
    LET b == response.body[1]
        e == b.elapsedTime
        p == b.entry.progress
        r == b.estimatedRemaining
    IN /\ r[2] > 0
       /\ r[1] >= 0
       /\ b.entry.status = "completed" => r[1] = 0
       /\ p = 0 => r[1] = 0
       /\ p = 100 => r[1] = 0
       /\ (p >= 1 /\ b.entry.status # "completed") => r[1] * p = e * (100 - p) * r[2]

\* A read at half way after one unit of time estimated one more unit.
C16_Witness ==
  /\ response.op = "GET"
  /\ response.status = 200
  /\ response.body[1].entry.progress = 50
  /\ response.body[1].entry.status = "downloading"
  /\ response.body[1].elapsedTime = 1
  /\ response.body[1].estimatedRemaining = <<50, 50>>

\* C17: an id has an entry exactly when it was written and not deleted
\* since: a write creates or keeps the entry, a delete removes it, a delete
\* of an id without entry succeeds and changes nothing, and a read, an
\* operation on another id or the passage of time neither removes nor
\* creates an entry.
C17_EntryLifetime ==
  /\ \A id \in TrackIds :
       Has(progressStore, id) =
         IF lastOp.trackId = id /\ lastOp.op = "POST" THEN TRUE
         ELSE IF lastOp.trackId = id /\ lastOp.op = "DELETE" THEN FALSE
         ELSE Has(lastOp.prior, id)
  /\ (lastOp.op = "DELETE" /\ lastOp.trackId # NoId
        /\ ~Has(lastOp.prior, lastOp.trackId)) =>
       /\ progressStore = lastOp.prior
       /\ response.status = 200

\* A delete removed an entry while the other id kept its own.
C17_Witness ==
  /\ lastOp.op = "DELETE"
  /\ lastOp.trackId # NoId
  /\ lastOp.before # <<>>
  /\ ~Has(progressStore, lastOp.trackId)
  /\ response.status = 200
  /\ \E other \in TrackIds : Has(progressStore, other)

\* C18: an operation on one job id leaves the entry of every other job id
\* as it was, and a read of an id returns the entry stored under that id.
C18_NoCrossJobInterference ==
  /\ \A id \in TrackIds :
       id # lastOp.trackId => progressStore[id] = lastOp.prior[id]
  /\ (lastOp.op = "GET" /\ response.status = 200) =>
       /\ response.trackId = lastOp.trackId
       /\ response.body[1].entry = Entry(lastOp.prior, lastOp.trackId)

\* A write to one id arrived while the other id held a different entry
\* written earlier, which is still there.
C18_Witness ==
  /\ lastOp.op = "POST"
  /\ lastOp.trackId # NoId
  /\ \E other \in TrackIds \ {lastOp.trackId} :
       /\ Has(progressStore, other)
       /\ Entry(progressStore, other).status # Addressed.status
       /\ Entry(progressStore, other).progress # Addressed.progress
       /\ Entry(progressStore, other).startTime < lastOp.time
\* C19: no two download requests the page sends carry the same job id.
C19_JobIdsUnique ==
  \A i, j \in 1..Len(sent) : i # j => sent[i] # sent[j]

\* The phases of the progress writes a job issued, repeats merged.
Phases(writes) ==
  LET kept == SelectSeq([i \in 1..Len(writes) |-> [at |-> i, status |-> writes[i].status]],
                        LAMBDA w : w.at = 1 \/ writes[w.at - 1].status # w.status)
  IN [i \in 1..Len(kept) |-> kept[i].status]

\* C20: an AIFF download job that succeeds issues progress writes whose
\* phases are analyzing, downloading, converting, enriching, tagging and
\* completed, in that order.
C20_PhaseOrder ==
  (pc = "returned" /\ result.success /\ req.format = "aiff") =>
    Phases(issued) = <<"analyzing", "downloading", "converting", "enriching",
                       "tagging", "completed">>

\* The extraction call of the running extractMetadata failed: the tool
\* exited non-zero or printed something JSON.parse rejects.
ExtractionFailed == HasCalled("yt-dlp-json", "throw")

\* Original statement of C21: the record returned after a failed extraction
\* has the two sentinels and every other field empty.
C21_FailureRecordBlank ==
  (pc = "meta-done" /\ ExtractionFailed) =>
    /\ normalized.title = UnknownTitle
    /\ normalized.artist = UnknownArtist
    /\ \A k \in MetaKeys \ {"title", "artist"} : normalized[k] = <<>>

\* C21: every record extractMetadata returns has a non-empty title and a
\* non-empty artist; after a failed extraction the call does not throw and
\* returns title 'Unknown Title', artist 'Unknown Artist', uploader
\* 'Unknown Artist', album 'Unknown Album' and every other field empty.
C21_TitleAndArtistSet ==
  /\ pc = "meta-done" =>
       /\ normalized.title # <<>>
       /\ normalized.artist # <<>>
       /\ thrown = <<>>
  /\ (pc = "meta-done" /\ ExtractionFailed) =>
       /\ normalized.title = <<"Unknown", WS, "Title">>
       /\ normalized.artist = <<"Unknown", WS, "Artist">>
       /\ normalized.uploader = <<"Unknown", WS, "Artist">>
       /\ normalized.album = <<"Unknown", WS, "Album">>
       /\ \A k \in MetaKeys \ {"title", "artist", "uploader", "album"} :
            normalized[k] = <<>>

\* The extraction failed and the sentinel record came back.
C21_Witness ==
  /\ pc = "meta-done"
  /\ ExtractionFailed
  /\ normalized.title = UnknownTitle
  /\ normalized.album = UnknownAlbum
  /\ Len(calls) = 1

\* Index of the earliest result whose score no other result exceeds.
TopIndex(results) ==
  CHOOSE i \in 1..Len(results) :
    /\ \A j \in 1..Len(results) : ScoreOf(results[j]) <= ScoreOf(results[i])
    /\ \A j \in 1..(i - 1) : ScoreOf(results[j]) < ScoreOf(results[i])

\* C22: the recording selected from the results of the matching service is
\* the first recording of the result with the highest score, the earliest
\* such result on a tie and a missing score counting as 0; with no results,
\* or no recordings in that result, there is no match.
C22_BestMatchSelection ==
  acoust # <<>> =>
    LET results == acoust[1] IN
      /\ (results = <<>> \/ results[TopIndex(results)].recordings = <<>>) =>
           /\ bestRec = <<>>
           /\ pc = "meta-done"
           /\ resolver = "nomatch"
      /\ (results # <<>> /\ results[TopIndex(results)].recordings # <<>>) =>
           /\ bestRec = <<results[TopIndex(results)].recordings[1]>>
           /\ pc = "mb-fetch"

\* Two results tie on the highest score behind a lower one, and the first
\* recording of the earlier of the two was selected.
C22_Witness ==
  /\ acoust # <<>>
  /\ Len(acoust[1]) = 3
  /\ ScoreOf(acoust[1][1]) < ScoreOf(acoust[1][2])
  /\ ScoreOf(acoust[1][2]) = ScoreOf(acoust[1][3])
  /\ bestRec = << <<"rec2">> >>
  /\ pc = "mb-fetch"

\* C23: merging a recording into a record that already holds it changes
\* nothing, both for the Normalizer's record and for the record as the
\* later stages leave it; the merge does not alter the record it is given;
\* and the record that enters the fan-out is the one merge of the
\* Normalizer's record and the recording.
C23_MergeIdempotent ==
  /\ [](mbData # <<>> =>
          LET mb == mbData[1]
              once == MergeMusicBrainzMetadata(baseline, mb)
          IN /\ MergeMusicBrainzMetadata(once, mb) = once
             /\ MergeMusicBrainzMetadata(normalized, mb) = normalized
             /\ pc = "discogs" => normalized = once)
  /\ [][pc = "mb-fetch" => baseline' = baseline]_vars

\* A recording with every attribute was merged into a record whose title,
\* artist, album and date it replaced.
C23_Witness ==
  /\ pc = "discogs"
  /\ mbData # <<>>
  /\ mbData[1].artist_credit # <<>>
  /\ \A k \in {"title", "artist", "album", "date"} :
       baseline[k] # <<>> /\ normalized[k] # baseline[k]

\* The entry the Normalizer of the running call worked on.
ParsedEntry == EntryOf(infoJson[1])

\* C24: where the extractor's structured fields supply an artist tag, an
\* album tag, a genre or a date, the Normalizer's record has that value for
\* the field, whatever the description says.
C24_DescriptionFillsGapsOnly ==
  infoJson # <<>> =>
    /\ ParsedEntry.artist # <<>> =>
         baseline.artist = Collapse(ParsedEntry.artist)
    /\ ParsedEntry.album # <<>> =>
         baseline.album = Collapse(ParsedEntry.album)
    /\ ParsedEntry.genre # <<>> =>
         baseline.genre = Collapse(ParsedEntry.genre)
    /\ CleanDate(ParsedEntry) # <<>> =>
         baseline.date = CleanDate(ParsedEntry)

\* YYYYMMDD written as YYYY-MM-DD.
Dashed(d) == <<d[1], d[2], d[3], d[4], "-", d[5], d[6], "-", d[7], d[8]>>

\* C25: the Normalizer's date is the 8-digit release or upload date written
\* as YYYY-MM-DD; without one, the 4-digit release year; without that, empty.
C25_DateNormalization ==
  infoJson # <<>> =>
    baseline.date =
      IF IsDigits(ParsedEntry.release_date, 8)
        THEN Dashed(ParsedEntry.release_date)
      ELSE IF IsDigits(ParsedEntry.upload_date, 8)
        THEN Dashed(ParsedEntry.upload_date)
      ELSE IF IsDigits(ParsedEntry.release_year, 4)
        THEN ParsedEntry.release_year
      ELSE <<>>

\* C26: for the upload titled `untitled` with the six-line release sheet as
\* description the Normalizer yields artist DJ Test, album Night EP, label
\* Test Records, country DE, date 2021, genre Electronic and style Deep
\* House.
C26_SheetExample ==
  infoJson = <<InfoSheet>> =>
    /\ baseline.artist = <<"D", "J", WS, "T", "e", "s", "t">>
    /\ baseline.album = <<"N", "i", "g", "h", "t", WS, "E", "P">>
    /\ baseline.label = <<"T", "e", "s", "t", WS, "R", "e", "c", "o", "r", "d",
                          "s">>
    /\ baseline.country = <<"D", "E">>
    /\ baseline.date = <<"2", "0", "2", "1">>
    /\ baseline.genre = <<"E", "l", "e", "c", "t", "r", "o", "n", "i", "c">>
    /\ baseline.style = <<"D", "e", "e", "p", WS, "H", "o", "u", "s", "e">>

\* C28: in the record extractMetadata returns the description has at most
\* 500 characters and the lyrics at most 5000.
C28_LengthBounds ==
  pc = "meta-done" =>
    /\ Len(normalized.description) <= DescriptionLimit
    /\ Len(normalized.lyrics) <= LyricsLimit

\* The calls of downloadAudio whose failure its catch rewrites.
DownloadLegs == {"yt-dlp", "find", "read-audio"}

\* The causes a download failure is classified into, in their order, each
\* with the texts that indicate it and the message reported for it.
Causes ==
  << [name |-> "timeout", markers |-> {"timeout", "timed out"},
      message |-> <<"Download timed out after 5 minutes.">>],
     [name |-> "access", markers |-> {"unable to extract", "video unavailable"},
      message |-> <<"Unable to access this video.">>],
     [name |-> "no-formats", markers |-> {"no video formats", "no suitable formats"},
      message |-> <<"No audio formats available.">>],
     [name |-> "rate-limited", markers |-> {"http error 429", "too many requests"},
      message |-> <<"Rate limited by the source.">>],
     [name |-> "network", markers |-> {"network", "connection"},
      message |-> <<"Network connection issue.">>] >>

\* The causes, by their place in the order, that the text of an error matches.
MatchedCauses(msg) ==
  {i \in 1..Len(Causes) : \E j \in 1..Len(msg) : msg[j] \in Causes[i].markers}

\* C27: a job that failed in the download leg answers 500 with the message
\* of the earliest cause its error text matches, in the order timeout,
\* access, no-formats, rate-limited, network, and with `Download failed:`
\* and the error text when it matches none.
C27_DownloadErrorClassified ==
  (pc = "returned" /\ failed \cap DownloadLegs # {}) =>
    /\ result.status = 500
    /\ result.error =
         <<"Failed to download audio:", WS>> \o
           (IF MatchedCauses(thrown[2]) = {}
            THEN <<"Download failed:", WS>> \o thrown[2]
            ELSE Causes[SetMin(MatchedCauses(thrown[2]))].message)

\* A download failed with a text of two causes, the later cause's marker
\* first in the text, and the earlier cause was reported.
C27_Witness ==
  /\ pc = "returned"
  /\ "yt-dlp" \in failed
  /\ MatchedCauses(thrown[2]) = {1, 4}
  /\ thrown[2][1] \in Causes[4].markers
  /\ result.error = <<"Failed to download audio:", WS,
                      "Download timed out after 5 minutes.">>

\* The place of a phase in the order of the driver's phases, 0 outside it.
PhaseRank(status) ==
  CASE status = "analyzing" -> 1
    [] status = "downloading" -> 2
    [] status = "converting" -> 3
    [] status = "tagging" -> 4
    [] status = "completed" -> 5
    [] OTHER -> 0

\* C29: along the progress writes of a job, in the order the driver issued
\* them, the phase never moves backwards in analyzing < downloading <
\* converting < tagging < completed and the percentage never decreases; the
\* tracker holds the write issued last when every write reached it; and
\* the last write of a successful job is `completed` with 100.
C29_DriverWritesInOrder ==
  /\ \A i \in 1..Len(issued) : PhaseRank(issued[i].status) > 0
  /\ \A i \in 1..(Len(issued) - 1) :
       /\ PhaseRank(issued[i].status) <= PhaseRank(issued[i + 1].status)
       /\ issued[i].progress <= issued[i + 1].progress
  /\ (issued # <<>> /\ req.trackId # NoId /\ lostWrites = 0) =>
       /\ Has(progressStore, req.trackId)
       /\ Entry(progressStore, req.trackId).status = LastIssued.status
       /\ Entry(progressStore, req.trackId).progress = LastIssued.progress
  /\ (pc = "returned" /\ result.success) =>
       /\ issued # <<>>
       /\ LastIssued = [status |-> "completed", progress |-> 100]

\* An AIFF job with an id succeeded after seven writes that all reached the
\* tracker.
C29_Witness ==
  /\ pc = "returned"
  /\ result.success
  /\ req.trackId # NoId
  /\ req.format = "aiff"
  /\ lostWrites = 0
  /\ Len(issued) = 7
  /\ Entry(progressStore, req.trackId).status = "completed"

\* The cover request `name` of the running call was made and found nothing.
CoverFailed(name) == HasCalled(name, "notok") \/ HasCalled(name, "throw")
CoverAsked(name) == \E outcome \in CallOutcomes : HasCalled(name, outcome)

\* C30: once the cover-art stage is over, a failed release check was
\* followed by the release-group check when the record has a release-group
\* id, and cover requests that all failed were followed by the scrobbling
\* service when its key, an artist and an album are there.
C30_NextCoverSourceConsulted ==
  pc \in {"lyrics", "genius-gate", "genius", "meta-done"} =>
    /\ (CoverFailed("caa-release") /\ normalized.release_group_mbid # <<>>) =>
         CoverAsked("caa-group")
    /\ ((CoverFailed("caa-release") \/ CoverFailed("caa-group"))
          /\ ~HasCalled("caa-group", "ok")) =>
         /\ env["LASTFM"] # "unread"
         /\ (env["LASTFM"] = "set" /\ normalized.artist # <<>>
               /\ normalized.album # <<>>) => CoverAsked("lastfm")

\* C31: the discography search is keyed by artist and album when the tags,
\* the playlist, the description or the recording supply an album, and by
\* artist and title when none of them does.
C31_DiscogsKey ==
  discogsQuery # <<>> =>
    LET album == OrElse(MbAlbumTitle(mbData[1]),
                        Collapse(OrElse(Enhanced(infoJson[1]).album,
                                        RawAlbum(infoJson[1]))))
    IN discogsQuery[1] =
         IF album # <<>>
         THEN [artist |-> normalized.artist, field |-> "release_title",
               text |-> album]
         ELSE [artist |-> normalized.artist, field |-> "track",
               text |-> normalized.title]

\* The entry holds the phase, percentage, message and labels of `body`.
WrittenBy(entry, body) ==
  /\ entry.status = body.status
  /\ entry.progress = ClampedTo(body.progress)
  /\ entry.message = (IF body.message = None THEN <<>> ELSE body.message[1])
  /\ \A k \in Optionals : entry[k] = body[k]

\* C34: writes to one id are applied one after the other: every entry holds
\* the phase, percentage, message and labels of one single write, after a
\* write those of that write, and its start timestamp is the one the
\* earlier write left, not later than any write applied to it.
C34_PerKeyAtomicity ==
  /\ \A id \in TrackIds :
       Has(progressStore, id) =>
         /\ \E body \in Bodies : WrittenBy(Entry(progressStore, id), body)
         /\ Entry(progressStore, id).startTime <= now
  /\ (lastOp.op = "POST" /\ lastOp.trackId # NoId) =>
       WrittenBy(Addressed, lastOp.body[1])
  /\ WroteExisting =>
       /\ Addressed.startTime = lastOp.before[1].startTime
       /\ Addressed.startTime <= lastOp.time

\* Two writes to one id were applied at the same time: the entry holds the
\* second, which differs from the first in phase, percentage, message and
\* every label.
C34_Witness ==
  /\ WroteExisting
  /\ lastOp.time = lastOp.before[1].startTime
  /\ WrittenBy(Addressed, lastOp.body[1])
  /\ Addressed.status # lastOp.before[1].status
  /\ Addressed.progress # lastOp.before[1].progress
  /\ Addressed.message # lastOp.before[1].message
  /\ \A k \in Optionals : Addressed[k] # lastOp.before[1][k]

UpstreamTitle == OrElse(ParsedEntry.track, ParsedEntry.title)

\* The upstream title is missing, contains `untitled` in any case or has
\* fewer than 3 characters.
UpstreamTitleUnusable ==
  \/ UpstreamTitle = <<>>
  \/ Len(UpstreamTitle) < 3
  \/ \E i \in 1..Len(UpstreamTitle) :
       [j \in 1..8 |-> Lower(At(UpstreamTitle, i + j - 1))]
         = <<"u", "n", "t", "i", "t", "l", "e", "d">>

\* C36 as stated: the upstream title is the track tag, else the title tag;
\* unless it is missing, contains `untitled` in any case or has fewer than 3
\* characters, the Normalizer's title is that title with its whitespace
\* collapsed, whatever the description says.
C36_TitleFromUpstream ==
  infoJson # <<>> /\ ~UpstreamTitleUnusable =>
    baseline.title = Collapse(UpstreamTitle)

\* C36: as above, with the sentinel title where the upstream title collapses
\* to nothing; and a title that is neither the collapsed upstream title nor
\* the sentinel was taken from the description for a missing, `untitled` or
\* short upstream title.
C36_TitleHandling ==
  infoJson # <<>> =>
    /\ ~UpstreamTitleUnusable =>
         baseline.title = OrElse(Collapse(UpstreamTitle), UnknownTitle)
    /\ baseline.title \notin {Collapse(UpstreamTitle), UnknownTitle} =>
         /\ UpstreamTitleUnusable
         /\ baseline.title = <<"R", "e", "a", "l", WS, "N", "a", "m", "e">>

\* A usable track tag next to a title tag and a description with a title
\* line: the record has the collapsed track tag.
C36_Witness ==
  /\ infoJson = <<InfoNamed>>
  /\ baseline.title = <<"T", "a", "g", WS, "N", "a", "m", "e">>

\* The step of the driver that follows each of its progress writes.
AfterWrite ==
  [p \in {"upd-analyzing", "upd-downloading", "upd-dl25", "upd-dl45",
          "upd-converting", "upd-tagging", "upd-completed"} |->
     CASE p = "upd-analyzing" -> "mkdir-session"
       [] p = "upd-downloading" -> "upd-dl25"
       [] p = "upd-dl25" -> "yt-dlp"
       [] p = "upd-dl45" -> "find"
       [] p = "upd-converting" -> "convert"
       [] p = "upd-tagging" -> "copy"
       [] p = "upd-completed" -> "cleanup"]

\* C38: a step of the driver that issues a progress write continues with the
\* step that follows the write in the code and leaves the record, the error
\* on its way, the response, the session directory and the history of the
\* pipeline steps as they were, whether the write reached the tracker, was
\* lost or was rejected for its missing id; and only a failed pipeline call
\* makes the job answer 500.
C38_ProgressDecoupled ==
  [][ /\ issued' # issued =>
           /\ pc \in DOMAIN AfterWrite
           /\ pc' = AfterWrite[pc]
           /\ UNCHANGED <<normalized, thrown, result, sessionDir, consulted,
                          failed, req>>
      /\ (result.status = 0 /\ result'.status = 500) =>
           /\ thrown # <<>>
           /\ failed \ {"rm"} # {} ]_vars

\* A job whose write was lost on the way answered with success.
C38_Witness ==
  /\ pc = "returned"
  /\ lostWrites > 0
  /\ result.success
  /\ req.trackId # NoId

\* The places in the order of the driver's writes where it wrote `completed`
\* with 100.
CompletedWrites ==
  {i \in 1..Len(issued) : issued[i] = [status |-> "completed", progress |-> 100]}

\* C39: once a download request has returned success the driver has issued
\* exactly one write `completed` with 100, as the last of its writes, and in
\* no step after the response does it issue another write.
C39_CompletedBeforeSuccess ==
  [][ /\ (pc' = "returned" /\ result'.success) =>
           /\ CompletedWrites # {}
           /\ issued' = issued
           /\ \A i \in CompletedWrites : i = Len(issued)
      /\ pc = "returned" => issued' = issued
      /\ (pc' = "returned" /\ ~result'.success) => CompletedWrites = {} ]_vars

\* A job in the original format, with an id, returned success after its
\* write of `completed`.
C39_Witness ==
  /\ pc = "returned"
  /\ result.success
  /\ req.trackId # NoId
  /\ req.format = "original"
  /\ LastIssued = [status |-> "completed", progress |-> 100]

\* The session directory of the request was created.
SessionCreated == sessionDir # "none"

\* C40: a request that created its session directory has run the removal of
\* it, as the last of its steps, by the time it answers, whatever leg failed;
\* and the removal, failed or not, leaves the error on its way, the record
\* and hence the response as they were.
C40_CleanupAlwaysAttempted ==
  /\ [](pc \in {"respond", "returned"} /\ SessionCreated =>
          /\ sessionDir \in {"removed", "kept"}
          /\ consulted # <<>>
          /\ consulted[Len(consulted)] = "rm")
  /\ [][ /\ sessionDir' \in {"removed", "kept"} /\ sessionDir = "created" =>
              UNCHANGED <<thrown, normalized, result, issued>>
         /\ pc' = "returned" /\ SessionCreated =>
              result' = DownloadResponse(thrown, normalized) ]_vars

\* A job whose copy to the destination failed answered 500 with that error
\* after a removal of the session directory that failed too.
C40_Witness ==
  /\ pc = "returned"
  /\ sessionDir = "kept"
  /\ "copy" \in failed
  /\ result.status = 500
  /\ thrown[2] = <<"ENOSPC">>

\* A step that is pollProgress(trackId): a live interval of the track fires
\* and the page has the answer of the read.
PollOf(trackId) ==
  /\ \E p \in intervals : p[1] = trackId
  /\ response' = GetResponse(progressStore, trackId, now)
  /\ UNCHANGED <<progressStore, now, metaVars, jobVars, sent, awaiting, timers,
                 handles, closure>>

\* The status the page displays for a track.
Shown(list, trackId) ==
  {list[1][i].status : i \in {j \in 1..Len(list[1]) : list[1][j].id = trackId}}

\* C32: a poll answered 404 leaves the displayed status, the live intervals
\* and the progressPolling map as they were; a poll ends an interval only
\* when its answer is a state in phase completed or error, and then the
\* track is no longer polled.
C32_NotFoundKeepsPolling ==
  [][ \A trackId \in TrackIds :
        PollOf(trackId) =>
          /\ response'.status = 404 =>
               UNCHANGED <<playlist, intervals, progressPolling>>
          /\ intervals' # intervals =>
               /\ response'.status = 200
               /\ response'.body[1].entry.status \in {"completed", "error"}
          /\ (response'.status = 200
                /\ response'.body[1].entry.status \in {"completed", "error"}) =>
               /\ \A p \in intervals' : p[1] # trackId
               /\ HandlesOf(progressPolling', trackId) = {} ]_vars

\* A poll of a running download was answered 404 and the polling goes on
\* with the status the click displayed.
C32_Witness ==
  /\ response.op = "GET"
  /\ response.status = 404
  /\ intervals # {}
  /\ awaiting # <<>>
  /\ Shown(playlist, 1) = {"analyzing"}

\* C33: a displayed status `error`, which on this page only the catch of a
\* failed download sets, is never replaced by a poll with a phase that is
\* not terminal.
C33_FailureSticks ==
  [][ \A trackId \in TrackIds :
        (PollOf(trackId) /\ Shown(playlist, trackId) = {"error"}) =>
          Shown(playlist', trackId) \subseteq {"completed", "error"} ]_vars

\* The job of the request the route is working on is the one for trackId.
Running(trackId) == pc \notin {"idle", "returned"} /\ req.trackId = trackId

\* C37: a poll for the id of the running job that is answered with a state
\* gets a terminal phase only if the running job has written it, and a start
\* timestamp that is not older than the arrival of the job's request.
C37_NoStaleRead ==
  [][ \A trackId \in TrackIds :
        (PollOf(trackId) /\ Running(trackId) /\ response'.status = 200) =>
          /\ response'.body[1].entry.status \in {"completed", "error"} =>
               \E i \in 1..Len(issued) :
                 issued[i].status = response'.body[1].entry.status
          /\ response'.body[1].entry.startTime >= req.at ]_vars

====
